---------------------------- MODULE Spec2Model ----------------------------
(* Model of the televerknet Telnet parser (src/src/lib.rs) and of the     *)
(* read loop that drives it (src/examples/parselog.rs).                   *)
EXTENDS Integers, Sequences, FiniteSets, TLC

(* ---------------------------------------------------------------------- *)
(* Program constants                                                      *)
(* ---------------------------------------------------------------------- *)
MAX_INTERMEDIATES == 1024
MAX_SUBS == 8
IAC == 255
SB == 250
SE == 240

(* ---------------------------------------------------------------------- *)
(* Bounds of the model                                                    *)
(* ---------------------------------------------------------------------- *)
MaxInput == 5
MaxAllInput == 4
MaxSubInput == 16
MaxRunTail == 5
MaxCapTail == 14
MaxStream == 4
MaxChunk == 3

Byte == 0..255

(* Representative bytes: CR, 'r', 's', DEL, SE, AYT, SB, WILL, IAC.        *)
Bytes == {13, 114, 115, 127, 240, 246, 250, 251, 255}

(* Bytes that may precede one arbitrary byte: CR, 'r', WILL, WONT, DO,    *)
(* DONT, IAC.                                                             *)
Core == {13, 114, 251, 252, 253, 254, 255}

(* Bytes fed inside a subnegotiation: TERMINAL-TYPE, SE, IAC.             *)
SubBytes == {24, 240, 255}

(* Bytes fed after a long printable run: CR, 'r', IAC.                    *)
RunBytes == {13, 114, 255}

(* The length of the printable run that starts a long-run input.          *)
LongRun == MAX_INTERMEDIATES - 1

(* Bytes of the streams read in chunks: CR, 'r', WILL, IAC.               *)
ChunkBytes == {13, 114, 251, 255}

(* What an uninitialised read buffer may hold.                            *)
Garbage == {0, 255}

(* ---------------------------------------------------------------------- *)
(* enum State, State::entry_action, State::exit_action                    *)
(* ---------------------------------------------------------------------- *)
State == {"Ground", "Data", "IacEntry", "NegEntry", "SubEntry", "SubIntermediate"}

(* the data buffer is delivered on entry to Ground as well *)
entry_action_eager(s) ==
    CASE s \in {"Ground", "Data", "IacEntry"} -> "DataDispatch"
      [] s = "SubEntry" -> "SubStart"
      [] OTHER -> "None"

(* the data buffer is delivered on entry to Data only *)
entry_action_dataonly(s) ==
    CASE s = "Data" -> "DataDispatch"
      [] s = "SubEntry" -> "SubStart"
      [] OTHER -> "None"

entry_action(s) ==
    CASE s = "Ground" -> "None"
      [] s = "Data" -> "DataDispatch"
      [] s = "IacEntry" -> "DataDispatch"
      [] s = "NegEntry" -> "None"
      [] s = "SubEntry" -> "SubStart"
      [] s = "SubIntermediate" -> "None"

(* Data is left without clearing the data buffer *)
exit_action_keep(s) ==
    CASE s = "IacEntry" -> "Clear"
      [] OTHER -> "None"

(* only Data clears the data buffer when it is left *)
exit_action_dataonly(s) ==
    CASE s = "Data" -> "Clear"
      [] OTHER -> "None"

exit_action(s) ==
    CASE s = "Ground" -> "None"
      [] s = "Data" -> "Clear"
      [] s = "IacEntry" -> "Clear"
      [] s = "NegEntry" -> "None"
      [] s = "SubEntry" -> "None"
      [] s = "SubIntermediate" -> "None"

(* ---------------------------------------------------------------------- *)
(* Parser::new.  Array index k of the source is index k + 1 here.  Of the *)
(* MAX_INTERMEDIATES cells of intermediates, the sequence holds those up  *)
(* to the last one written so far; the cells after it hold the 0 they     *)
(* are created with.                                                      *)
(* ---------------------------------------------------------------------- *)
new ==
    [ state |-> "Ground",
      intermediates |-> <<>>,
      intermediate_idx |-> 0,
      neg_command |-> 0,
      subs |-> [i \in 1..MAX_SUBS |-> 0],
      sub_idx |-> 0,
      ignoring |-> FALSE ]

(* a[i - 1] of the source. *)
Cell(a, i) == IF i <= Len(a) THEN a[i] ELSE 0

(* a[i - 1] = v of the source. *)
Store(a, i, v) ==
    IF i <= Len(a) THEN [a EXCEPT ![i] = v]
    ELSE a \o [j \in 1..(i - 1 - Len(a)) |-> 0] \o <<v>>

(* Slice &a[..n]; the source panics when n exceeds the array length.      *)
Slice(a, n) == [i \in 1..n |-> Cell(a, i)]

intermediates(self) == Slice(self.intermediates, self.intermediate_idx)

subs(self) == Slice(self.subs, self.sub_idx)

(* ---------------------------------------------------------------------- *)
(* The events a Perform implementation receives, as the tests' and the    *)
(* example's sinks record them.                                           *)
(* ---------------------------------------------------------------------- *)
DataEv(bytes, ign) ==
    [kind |-> "data", bytes |-> bytes, ignoring |-> ign, cmd |-> 0, byte |-> 0]

ExecuteEv(b) ==
    [kind |-> "execute", bytes |-> <<>>, ignoring |-> FALSE, cmd |-> 0, byte |-> b]

IacEv(b) ==
    [kind |-> "iac_dispatch", bytes |-> <<>>, ignoring |-> FALSE, cmd |-> 0, byte |-> b]

SubEv(bytes) ==
    [kind |-> "sub_dispatch", bytes |-> bytes, ignoring |-> FALSE, cmd |-> 0, byte |-> 0]

NegEv(c, o) ==
    [kind |-> "negotiate_dispatch", bytes |-> <<>>, ignoring |-> FALSE, cmd |-> c, byte |-> o]

(* Mutants of Parser::get_action.                                         *)
(* DEL (0x7F) is executed, not collected.                                 *)
get_action_del(self, byte) ==
    CASE self.state \in {"Ground", "Data"} ->
           (CASE byte \in 0..31 -> <<"Data", "Execute">>
              [] byte \in 32..126 -> <<"Ground", "Collect">>
              [] byte \in 127..254 -> <<"Data", "Execute">>
              [] byte = IAC -> <<"IacEntry", "None">>)
      [] self.state = "IacEntry" ->
           (CASE byte = SB -> <<"SubEntry", "None">>
              [] byte \in 251..254 -> <<"NegEntry", "NegStart">>
              [] OTHER -> <<"Ground", "IacDispatch">>)
      [] self.state = "NegEntry" -> <<"Ground", "NegDispatch">>
      [] self.state \in {"SubEntry", "SubIntermediate"} ->
           (CASE byte = SE -> <<"Ground", "SubDispatch">>
              [] OTHER -> <<"SubIntermediate", "SubPut">>)

(* An IAC in the option position starts a new command.                    *)
get_action_negiac(self, byte) ==
    CASE self.state \in {"Ground", "Data"} ->
           (CASE byte \in 0..31 -> <<"Data", "Execute">>
              [] byte \in 32..127 -> <<"Ground", "Collect">>
              [] byte \in 128..254 -> <<"Data", "Execute">>
              [] byte = IAC -> <<"IacEntry", "None">>)
      [] self.state = "IacEntry" ->
           (CASE byte = SB -> <<"SubEntry", "None">>
              [] byte \in 251..254 -> <<"NegEntry", "NegStart">>
              [] OTHER -> <<"Ground", "IacDispatch">>)
      [] self.state = "NegEntry" ->
           (CASE byte = IAC -> <<"IacEntry", "None">>
              [] OTHER -> <<"Ground", "NegDispatch">>)
      [] self.state \in {"SubEntry", "SubIntermediate"} ->
           (CASE byte = SE -> <<"Ground", "SubDispatch">>
              [] OTHER -> <<"SubIntermediate", "SubPut">>)

(* The negotiation range is 0xfb..=0xff.                                  *)
get_action_range(self, byte) ==
    CASE self.state \in {"Ground", "Data"} ->
           (CASE byte \in 0..31 -> <<"Data", "Execute">>
              [] byte \in 32..127 -> <<"Ground", "Collect">>
              [] byte \in 128..254 -> <<"Data", "Execute">>
              [] byte = IAC -> <<"IacEntry", "None">>)
      [] self.state = "IacEntry" ->
           (CASE byte = SB -> <<"SubEntry", "None">>
              [] byte \in 251..255 -> <<"NegEntry", "NegStart">>
              [] OTHER -> <<"Ground", "IacDispatch">>)
      [] self.state = "NegEntry" -> <<"Ground", "NegDispatch">>
      [] self.state \in {"SubEntry", "SubIntermediate"} ->
           (CASE byte = SE -> <<"Ground", "SubDispatch">>
              [] OTHER -> <<"SubIntermediate", "SubPut">>)

(* Every command from 0xf1 on but IAC opens a negotiation.                *)
get_action_cmdneg(self, byte) ==
    CASE self.state \in {"Ground", "Data"} ->
           (CASE byte \in 0..31 -> <<"Data", "Execute">>
              [] byte \in 32..127 -> <<"Ground", "Collect">>
              [] byte \in 128..254 -> <<"Data", "Execute">>
              [] byte = IAC -> <<"IacEntry", "None">>)
      [] self.state = "IacEntry" ->
           (CASE byte = SB -> <<"SubEntry", "None">>
              [] byte \in 241..254 -> <<"NegEntry", "NegStart">>
              [] OTHER -> <<"Ground", "IacDispatch">>)
      [] self.state = "NegEntry" -> <<"Ground", "NegDispatch">>
      [] self.state \in {"SubEntry", "SubIntermediate"} ->
           (CASE byte = SE -> <<"Ground", "SubDispatch">>
              [] OTHER -> <<"SubIntermediate", "SubPut">>)

(* The byte after SB is taken as the option and not stored.               *)
get_action_skipopt(self, byte) ==
    CASE self.state \in {"Ground", "Data"} ->
           (CASE byte \in 0..31 -> <<"Data", "Execute">>
              [] byte \in 32..127 -> <<"Ground", "Collect">>
              [] byte \in 128..254 -> <<"Data", "Execute">>
              [] byte = IAC -> <<"IacEntry", "None">>)
      [] self.state = "IacEntry" ->
           (CASE byte = SB -> <<"SubEntry", "None">>
              [] byte \in 251..254 -> <<"NegEntry", "NegStart">>
              [] OTHER -> <<"Ground", "IacDispatch">>)
      [] self.state = "NegEntry" -> <<"Ground", "NegDispatch">>
      [] self.state = "SubEntry" ->
           (CASE byte = SE -> <<"Ground", "SubDispatch">>
              [] OTHER -> <<"SubIntermediate", "None">>)
      [] self.state = "SubIntermediate" ->
           (CASE byte = SE -> <<"Ground", "SubDispatch">>
              [] OTHER -> <<"SubIntermediate", "SubPut">>)

(* ---------------------------------------------------------------------- *)
(* Parser::get_action                                                     *)
(* ---------------------------------------------------------------------- *)
get_action(self, byte) ==
    CASE self.state \in {"Ground", "Data"} ->
           (CASE byte \in 0..31 -> <<"Data", "Execute">>
              [] byte \in 32..127 -> <<"Ground", "Collect">>
              [] byte \in 128..254 -> <<"Data", "Execute">>
              [] byte = IAC -> <<"IacEntry", "None">>)
      [] self.state = "IacEntry" ->
           (CASE byte = SB -> <<"SubEntry", "None">>
              [] byte \in 251..254 -> <<"NegEntry", "NegStart">>
              [] OTHER -> <<"Ground", "IacDispatch">>)
      [] self.state = "NegEntry" -> <<"Ground", "NegDispatch">>
      [] self.state \in {"SubEntry", "SubIntermediate"} ->
           (CASE byte = SE -> <<"Ground", "SubDispatch">>
              [] OTHER -> <<"SubIntermediate", "SubPut">>)

(* ---------------------------------------------------------------------- *)
(* A call in progress: the parser (self), the performer's record of the   *)
(* callbacks it has received, and whether the call has panicked (an       *)
(* out-of-bounds index or slice).                                         *)
(* ---------------------------------------------------------------------- *)
Call(self, performer) == [self |-> self, performer |-> performer, panic |-> FALSE]

Emit(c, ev) == [c EXCEPT !.performer = Append(@, ev)]

Panic(c) == [c EXCEPT !.panic = TRUE]

(* Action::Collect *)
Collect(c, byte) ==
    IF c.self.intermediate_idx = MAX_INTERMEDIATES
    THEN [c EXCEPT !.self.ignoring = TRUE]
    ELSE IF c.self.intermediate_idx < MAX_INTERMEDIATES
         THEN [c EXCEPT !.self.intermediates =
                                   Store(@, c.self.intermediate_idx + 1, byte),
                        !.self.intermediate_idx = @ + 1]
         ELSE Panic(c)

(* Action::DataDispatch *)
DataDispatch(c) ==
    IF c.self.intermediate_idx > 0
    THEN IF c.self.intermediate_idx <= MAX_INTERMEDIATES
         THEN Emit(c, DataEv(intermediates(c.self), c.self.ignoring))
         ELSE Panic(c)
    ELSE c

(* Mutant: Clear leaves the cursor where it is.                           *)
Clear_flagonly(c) == [c EXCEPT !.self.ignoring = FALSE]

(* Mutant: Clear leaves ignoring as it is.                                *)
Clear_keepflag(c) == [c EXCEPT !.self.intermediate_idx = 0]

(* Action::Clear *)
Clear(c) == [c EXCEPT !.self.intermediate_idx = 0, !.self.ignoring = FALSE]

(* Mutant: SubStart leaves the cursor where it is.                        *)
SubStart_keep(c) == c

(* Action::SubStart *)
SubStart(c) == [c EXCEPT !.self.sub_idx = 0]

(* Mutant: the bound test of SubPut is <= .                               *)
SubPut_offbyone(c, byte) ==
    IF c.self.sub_idx <= MAX_SUBS
    THEN [c EXCEPT !.self.subs = Store(@, c.self.sub_idx + 1, byte),
                   !.self.sub_idx = @ + 1]
    ELSE c

(* Action::SubPut *)
SubPut(c, byte) ==
    IF c.self.sub_idx < MAX_SUBS
    THEN [c EXCEPT !.self.subs = Store(@, c.self.sub_idx + 1, byte),
                   !.self.sub_idx = @ + 1]
    ELSE c

(* Action::SubDispatch *)
SubDispatch(c) ==
    IF c.self.sub_idx > 0
    THEN IF c.self.sub_idx <= MAX_SUBS
         THEN Emit(c, SubEv(subs(c.self)))
         ELSE Panic(c)
    ELSE c

(* ---------------------------------------------------------------------- *)
(* Parser::perform_action                                                 *)
(* ---------------------------------------------------------------------- *)
perform_action(c, action, byte) ==
    IF c.panic THEN c
    ELSE CASE action = "Execute" -> Emit(c, ExecuteEv(byte))
           [] action = "Collect" -> Collect(c, byte)
           [] action = "DataDispatch" -> DataDispatch(c)
           [] action \in {"Ignore", "None"} -> c
           [] action = "Clear" -> Clear(c)
           [] action = "IacDispatch" -> Emit(c, IacEv(byte))
           [] action = "NegStart" -> [c EXCEPT !.self.neg_command = byte]
           [] action = "NegDispatch" -> Emit(c, NegEv(c.self.neg_command, byte))
           [] action = "SubStart" -> SubStart(c)
           [] action = "SubPut" -> SubPut(c, byte)
           [] action = "SubDispatch" -> SubDispatch(c)

(* maybe_action! of perform_state_change *)
maybe_action(c, action, arg) ==
    IF action = "None" THEN c ELSE perform_action(c, action, arg)

(* ---------------------------------------------------------------------- *)
(* Parser::perform_state_change: exit action of the previous state, then  *)
(* the transition action, then the entry action of the new state.         *)
(* ---------------------------------------------------------------------- *)
perform_state_change(c, state, action, byte) ==
    LET c1 == maybe_action(c, exit_action(c.self.state), 0)
        c2 == maybe_action(c1, action, byte)
        c3 == maybe_action(c2, entry_action(state), 0)
    IN  IF c3.panic THEN c3 ELSE [c3 EXCEPT !.self.state = state]

(* ---------------------------------------------------------------------- *)
(* Parser::advance                                                        *)
(* ---------------------------------------------------------------------- *)
advance(c, byte) ==
    LET sa == get_action(c.self, byte)
    IN  perform_state_change(c, sa[1], sa[2], byte)

(* ---------------------------------------------------------------------- *)
(* The parser of rabscuttle_telnet/src/lib.rs: five states, no            *)
(* NegEntry. Its perform_action has the arms of the parser above but      *)
(* NegStart and NegDispatch, and the same buffers.                        *)
(* ---------------------------------------------------------------------- *)
LegacyState == {"Ground", "Data", "IacEntry", "SubEntry", "SubIntermediate"}

legacy_entry_action(s) ==
    CASE s = "Ground" -> "None"
      [] s = "Data" -> "DataDispatch"
      [] s = "IacEntry" -> "None"
      [] s = "SubEntry" -> "SubStart"
      [] s = "SubIntermediate" -> "None"

legacy_exit_action(s) ==
    CASE s = "Ground" -> "None"
      [] s = "Data" -> "Clear"
      [] s = "IacEntry" -> "None"
      [] s = "SubEntry" -> "None"
      [] s = "SubIntermediate" -> "None"

legacy_new ==
    [ state |-> "Ground",
      intermediates |-> <<>>,
      intermediate_idx |-> 0,
      subs |-> [i \in 1..MAX_SUBS |-> 0],
      sub_idx |-> 0,
      ignoring |-> FALSE ]

(* Command::from_u8: Ok(Command(src)) for 236..=255                       *)
Command_from_u8(src) ==
    IF src \in 236..255 THEN [ok |-> TRUE, v |-> src]
    ELSE [ok |-> FALSE, v |-> src]

(* the pattern Ok(Command::K) *)
IsOk(r, k) == r.ok /\ r.v = k

(* byte & (1 << 7) != 0 *)
HighBit(byte) == (byte \div 128) % 2 = 1

(* WILL, WONT, DO and DONT open a negotiation and are not dispatched *)
legacy_get_action_neg(self, byte) ==
    CASE self.state \in {"Ground", "Data"} ->
           IF byte \in {0, 13, 10} THEN <<"Data", "Execute">>
           ELSE IF IsOk(Command_from_u8(byte), IAC) THEN <<"IacEntry", "None">>
           ELSE IF HighBit(byte) THEN <<"Data", "Execute">>
           ELSE <<"Ground", "Collect">>
      [] self.state = "IacEntry" ->
           IF IsOk(Command_from_u8(byte), SB) THEN <<"SubEntry", "None">>
           ELSE IF byte \in 251..254 THEN <<"Ground", "None">>
           ELSE <<"Ground", "IacDispatch">>
      [] self.state \in {"SubEntry", "SubIntermediate"} ->
           IF IsOk(Command_from_u8(byte), SE) THEN <<"Ground", "SubDispatch">>
           ELSE <<"SubIntermediate", "SubPut">>

legacy_get_action(self, byte) ==
    CASE self.state \in {"Ground", "Data"} ->
           IF byte \in {0, 13, 10} THEN <<"Data", "Execute">>
           ELSE IF IsOk(Command_from_u8(byte), IAC) THEN <<"IacEntry", "None">>
           ELSE IF HighBit(byte) THEN <<"Data", "Execute">>
           ELSE <<"Ground", "Collect">>
      [] self.state = "IacEntry" ->
           IF IsOk(Command_from_u8(byte), SB) THEN <<"SubEntry", "None">>
           ELSE <<"Ground", "IacDispatch">>
      [] self.state \in {"SubEntry", "SubIntermediate"} ->
           IF IsOk(Command_from_u8(byte), SE) THEN <<"Ground", "SubDispatch">>
           ELSE <<"SubIntermediate", "SubPut">>

legacy_perform_action(c, action, byte) ==
    IF c.panic THEN c
    ELSE CASE action = "Execute" -> Emit(c, ExecuteEv(byte))
           [] action = "Collect" -> Collect(c, byte)
           [] action = "DataDispatch" -> DataDispatch(c)
           [] action \in {"Ignore", "None"} -> c
           [] action = "Clear" -> Clear(c)
           [] action = "IacDispatch" -> Emit(c, IacEv(byte))
           [] action = "SubStart" -> SubStart(c)
           [] action = "SubPut" -> SubPut(c, byte)
           [] action = "SubDispatch" -> SubDispatch(c)

legacy_maybe_action(c, action, arg) ==
    IF action = "None" THEN c ELSE legacy_perform_action(c, action, arg)

legacy_perform_state_change(c, state, action, byte) ==
    LET c1 == legacy_maybe_action(c, legacy_exit_action(c.self.state), 0)
        c2 == legacy_maybe_action(c1, action, byte)
        c3 == legacy_maybe_action(c2, legacy_entry_action(state), 0)
    IN  IF c3.panic THEN c3 ELSE [c3 EXCEPT !.self.state = state]

legacy_advance(c, byte) ==
    LET sa == legacy_get_action(c.self, byte)
    IN  legacy_perform_state_change(c, sa[1], sa[2], byte)

(* ---------------------------------------------------------------------- *)
(* Telnet options (rabscuttle_telnet/src/option.rs)                       *)
(*   An Opt is the record [v |-> n] of its one field; a Result is the     *)
(*   record [ok, opt, invalid_src], opt being meaningful when ok and      *)
(*   invalid_src when not.                                                *)
(* ---------------------------------------------------------------------- *)
Opt(n) == [v |-> n]

Ok(o) == [ok |-> TRUE, opt |-> o, invalid_src |-> 0]

Err(src) == [ok |-> FALSE, opt |-> Opt(0), invalid_src |-> src]

(* the table of option constants taken for the accepted values *)
from_u8_table(src) ==
    IF src \in (0..39) \cup {70, 85, 86, 93, 255} THEN Ok(Opt(src)) ELSE Err(src)

from_u8(src) ==
    CASE src \in 1..39 -> Ok(Opt(src))
      [] src \in {70, 85, 86, 93, 255} -> Ok(Opt(src))
      [] OTHER -> Err(src)

as_u8(o) == o.v

(* telnet_options!: the constants Opt::BINARY (0) .. Opt::NEW_ENVIRON     *)
(* (39), MSSP (70), COMPRESS (85), COMPRESS2 (86), ZMP (93), EXOPL (255)  *)
telnet_options == {Opt(n) : n \in (0..39) \cup {70, 85, 86, 93, 255}}

(* ---------------------------------------------------------------------- *)
(* The Q Method negotiator (rabscuttle_telnet/src/q.rs)                   *)
(*   A Negotiator is a record of four tables indexed by option. A call    *)
(*   is the record [self, want, sent, asked, err]: the negotiator, the    *)
(*   answer its performer gives to want_enabled, the commands the         *)
(*   performer was told to send during the call, whether want_enabled     *)
(*   was called, and the returned Option<NegotiatorError>.                *)
(* ---------------------------------------------------------------------- *)
WILL == 251
WONT == 252
DO == 253
DONT == 254
NOP == 241

Options == {24, 200}
Commands == {WILL, WONT, DO, DONT, NOP}

OptionState == {"No", "WantNo", "WantYes", "Yes"}
QueueBit == {"Empty", "Opposite"}
NegotiatorError ==
    {"AlreadyEnabled", "AlreadyQueued", "AlreadyDisabled",
     "AlreadyNegotiating", "DontAnsweredByWill", "WontAnsweredByDo",
     "UnknownCommand"}

Negotiator_new ==
    [ local |-> [o \in Options |-> "No"],
      localq |-> [o \in Options |-> "Empty"],
      remote |-> [o \in Options |-> "No"],
      remoteq |-> [o \in Options |-> "Empty"] ]

QCall(self, want) ==
    [ self |-> self, want |-> want, sent |-> <<>>, asked |-> FALSE,
      err |-> "None" ]

send(c, command, option) ==
    [c EXCEPT !.sent = Append(@, <<command, option>>)]

want_enabled(c) == [c EXCEPT !.asked = TRUE]

Some(c, e) == [c EXCEPT !.err = e]

(* a peer's WILL reported as an error and otherwise ignored *)
recv_will_reject(c, option) == Some(c, "DontAnsweredByWill")

(* a peer's WILL always agreed to, whatever the slot holds *)
recv_will_agree(c, option) ==
    send([c EXCEPT !.self.remote[option] = "Yes"], DO, option)

recv_will(c, option) ==
    LET state == c.self.remote[option]
        q == c.self.remoteq[option]
    IN  CASE state = "No" ->
               IF c.want
               THEN send([want_enabled(c) EXCEPT
                              !.self.remote[option] = "Yes"], DO, option)
               ELSE send(want_enabled(c), DONT, option)
          [] state = "Yes" -> c
          [] state = "WantNo" /\ q = "Empty" ->
               Some([c EXCEPT !.self.remote[option] = "No"],
                    "DontAnsweredByWill")
          [] state = "WantNo" /\ q = "Opposite" ->
               Some([c EXCEPT !.self.remote[option] = "Yes",
                              !.self.remoteq[option] = "Empty"],
                    "DontAnsweredByWill")
          [] state = "WantYes" /\ q = "Empty" ->
               [c EXCEPT !.self.remote[option] = "Yes"]
          [] state = "WantYes" /\ q = "Opposite" ->
               send([c EXCEPT !.self.remote[option] = "WantNo",
                              !.self.remoteq[option] = "Empty"],
                    DONT, option)

(* a WONT that leaves a queued request in place when it settles on No *)
recv_wont_keepq(c, option) ==
    LET state == c.self.remote[option]
        q == c.self.remoteq[option]
    IN  CASE state = "No" -> c
          [] state = "Yes" ->
               send([c EXCEPT !.self.remote[option] = "No"], DONT, option)
          [] state = "WantNo" /\ q = "Empty" ->
               [c EXCEPT !.self.remote[option] = "No"]
          [] state = "WantNo" /\ q = "Opposite" ->
               send([c EXCEPT !.self.remote[option] = "WantYes",
                              !.self.remoteq[option] = "Empty"],
                    DO, option)
          [] state = "WantYes" ->
               [c EXCEPT !.self.remote[option] = "No"]

(* a WONT that is always acknowledged *)
recv_wont_ack(c, option) ==
    send([c EXCEPT !.self.remote[option] = "No"], DONT, option)

recv_wont(c, option) ==
    LET state == c.self.remote[option]
        q == c.self.remoteq[option]
    IN  CASE state = "No" -> c
          [] state = "Yes" ->
               send([c EXCEPT !.self.remote[option] = "No"], DONT, option)
          [] state = "WantNo" /\ q = "Empty" ->
               [c EXCEPT !.self.remote[option] = "No"]
          [] state = "WantNo" /\ q = "Opposite" ->
               send([c EXCEPT !.self.remote[option] = "WantYes",
                              !.self.remoteq[option] = "Empty"],
                    DO, option)
          [] state = "WantYes" /\ q = "Empty" ->
               [c EXCEPT !.self.remote[option] = "No"]
          [] state = "WantYes" /\ q = "Opposite" ->
               [c EXCEPT !.self.remote[option] = "No",
                         !.self.remoteq[option] = "Empty"]

(* a DO always refused *)
recv_do_refuse(c, option) == send(want_enabled(c), WONT, option)

(* a DO that turns the option on and answers WONT *)
recv_do_wonton(c, option) ==
    send([c EXCEPT !.self.local[option] = "Yes"], WONT, option)

(* a DO handled on the remote table, as a WILL is *)
recv_do_asremote(c, option) == recv_will(c, option)

recv_do(c, option) ==
    LET state == c.self.local[option]
        q == c.self.localq[option]
    IN  CASE state = "No" ->
               IF c.want
               THEN send([want_enabled(c) EXCEPT
                              !.self.local[option] = "Yes"], WILL, option)
               ELSE send(want_enabled(c), WONT, option)
          [] state = "Yes" -> c
          [] state = "WantNo" /\ q = "Empty" ->
               Some([c EXCEPT !.self.local[option] = "No"],
                    "WontAnsweredByDo")
          [] state = "WantNo" /\ q = "Opposite" ->
               Some([c EXCEPT !.self.local[option] = "Yes",
                              !.self.localq[option] = "Empty"],
                    "WontAnsweredByDo")
          [] state = "WantYes" /\ q = "Empty" ->
               [c EXCEPT !.self.local[option] = "Yes"]
          [] state = "WantYes" /\ q = "Opposite" ->
               send([c EXCEPT !.self.local[option] = "WantNo",
                              !.self.localq[option] = "Empty"],
                    WONT, option)

(* a DONT that leaves the local slot waiting *)
recv_dont_want(c, option) ==
    [c EXCEPT !.self.local[option] = "WantNo"]

(* a DONT obeyed without the WONT that acknowledges it *)
recv_dont_silent(c, option) ==
    [c EXCEPT !.self.local[option] = "No"]

recv_dont(c, option) ==
    LET state == c.self.local[option]
        q == c.self.localq[option]
    IN  CASE state = "No" -> c
          [] state = "Yes" ->
               send([c EXCEPT !.self.local[option] = "No"], WONT, option)
          [] state = "WantNo" /\ q = "Empty" ->
               [c EXCEPT !.self.local[option] = "No"]
          [] state = "WantNo" /\ q = "Opposite" ->
               send([c EXCEPT !.self.local[option] = "WantYes",
                              !.self.localq[option] = "Empty"],
                    WILL, option)
          [] state = "WantYes" /\ q = "Empty" ->
               [c EXCEPT !.self.local[option] = "No"]
          [] state = "WantYes" /\ q = "Opposite" ->
               [c EXCEPT !.self.local[option] = "No",
                         !.self.localq[option] = "Empty"]

(* a command that is not a negotiation command is ignored *)
recv_lenient(c, command, option) ==
    CASE command = WILL -> recv_will(c, option)
      [] command = WONT -> recv_wont(c, option)
      [] command = DO -> recv_do(c, option)
      [] command = DONT -> recv_dont(c, option)
      [] OTHER -> c

recv(c, command, option) ==
    CASE command = WILL -> recv_will(c, option)
      [] command = WONT -> recv_wont(c, option)
      [] command = DO -> recv_do(c, option)
      [] command = DONT -> recv_dont(c, option)
      [] OTHER -> Some(c, "UnknownCommand")

(* a queued disable that enable does not take back *)
enable_noundo(c, option) ==
    LET state == c.self.remote[option]
        q == c.self.remoteq[option]
    IN  CASE state = "No" ->
               send([c EXCEPT !.self.remote[option] = "WantYes"], DO, option)
          [] state = "Yes" -> Some(c, "AlreadyEnabled")
          [] state = "WantNo" /\ q = "Empty" ->
               [c EXCEPT !.self.remoteq[option] = "Opposite"]
          [] state = "WantNo" /\ q = "Opposite" -> Some(c, "AlreadyQueued")
          [] state = "WantYes" /\ q = "Empty" ->
               Some(c, "AlreadyNegotiating")
          [] state = "WantYes" /\ q = "Opposite" -> Some(c, "AlreadyQueued")

(* a request that is sent again whatever the slot holds *)
enable_resend(c, option) ==
    send([c EXCEPT !.self.remote[option] = "WantYes"], DO, option)

(* an option taken as enabled without asking the peer *)
enable_settle(c, option) == [c EXCEPT !.self.remote[option] = "Yes"]

(* a request sent twice *)
enable_twice(c, option) ==
    send(send([c EXCEPT !.self.remote[option] = "WantYes"], DO, option),
         DO, option)

(* a request recorded in the local table *)
enable_local(c, option) ==
    send([c EXCEPT !.self.local[option] = "WantYes"], DO, option)

enable(c, option) ==
    LET state == c.self.remote[option]
        q == c.self.remoteq[option]
    IN  CASE state = "No" ->
               send([c EXCEPT !.self.remote[option] = "WantYes"], DO, option)
          [] state = "Yes" -> Some(c, "AlreadyEnabled")
          [] state = "WantNo" /\ q = "Empty" ->
               [c EXCEPT !.self.remoteq[option] = "Opposite"]
          [] state = "WantNo" /\ q = "Opposite" -> Some(c, "AlreadyQueued")
          [] state = "WantYes" /\ q = "Empty" ->
               Some(c, "AlreadyNegotiating")
          [] state = "WantYes" /\ q = "Opposite" ->
               [c EXCEPT !.self.remoteq[option] = "Empty"]

(* a request that is sent again whatever the slot holds *)
disable_resend(c, option) ==
    send([c EXCEPT !.self.remote[option] = "WantNo"], DONT, option)

(* a request to disable that is applied to every option *)
disable_all(c, option) ==
    send([c EXCEPT !.self.remote = [o \in Options |-> "WantNo"]],
         DONT, option)

(* a request that is never queued behind the one in flight *)
disable_noqueue(c, option) ==
    LET state == c.self.remote[option]
    IN  CASE state = "Yes" ->
               send([c EXCEPT !.self.remote[option] = "WantNo"],
                    DONT, option)
          [] OTHER -> Some(c, "AlreadyDisabled")

disable(c, option) ==
    LET state == c.self.remote[option]
        q == c.self.remoteq[option]
    IN  CASE state = "No" -> Some(c, "AlreadyDisabled")
          [] state = "Yes" ->
               send([c EXCEPT !.self.remote[option] = "WantNo"],
                    DONT, option)
          [] state = "WantNo" /\ q = "Empty" ->
               Some(c, "AlreadyNegotiating")
          [] state = "WantNo" /\ q = "Opposite" ->
               [c EXCEPT !.self.remoteq[option] = "Empty"]
          [] state = "WantYes" /\ q = "Empty" ->
               [c EXCEPT !.self.remoteq[option] = "Opposite"]
          [] state = "WantYes" /\ q = "Opposite" -> Some(c, "AlreadyQueued")

(* ---------------------------------------------------------------------- *)
(* State                                                                  *)
(*   parser, performer, panicked : a Parser, the callbacks its performer  *)
(*       has received, and whether a call on it panicked                  *)
(*   input : the bytes passed to advance so far                           *)
(*   hist  : for each byte of input, the parser's scalar fields and the   *)
(*       number of callbacks received before that advance call            *)
(*   stream : the byte stream two parselog processes are given            *)
(*   stdin, buf : what the first process has still to read, and its read  *)
(*       buffer (it owns parser and performer)                            *)
(*   parser2, performer2, panicked2, rest2 : a second parser given the    *)
(*       same stream one byte per advance call, and what is left for it   *)
(*   it, we : two Negotiators (a specification with one uses it)          *)
(*   calls : the calls made on them, each with the negotiator before and  *)
(*       after it, the commands sent during it and what it returned       *)
(*   toIt, toWe : the commands in flight to each of two connected peers   *)
(*   apps : how many enable and disable calls the connected peers made    *)
(*   octet, converted : a u8 and what Opt::from_u8 returned for it        *)
(* ---------------------------------------------------------------------- *)
VARIABLES parser, performer, panicked, input, hist,
          stream, stdin, buf, parser2, performer2, panicked2, rest2,
          it, we, calls, toIt, toWe, apps,
          octet, converted

vars == <<parser, performer, panicked, input, hist,
          stream, stdin, buf, parser2, performer2, panicked2, rest2,
          it, we, calls, toIt, toWe, apps,
          octet, converted>>

opt_vars == <<octet, converted>>

(* No conversion asked for.                                               *)
NotCalled == [called |-> FALSE, ok |-> FALSE, opt |-> [v |-> 0], invalid_src |-> 0]

OptIdle ==
    /\ octet = 0
    /\ converted = NotCalled

reader_vars == <<stream, stdin, buf, parser2, performer2, panicked2, rest2>>

neg_vars == <<it, we, calls, toIt, toWe, apps>>

NegIdle ==
    /\ it = Negotiator_new
    /\ we = Negotiator_new
    /\ calls = <<>>
    /\ toIt = <<>>
    /\ toWe = <<>>
    /\ apps = 0

Init ==
    /\ parser = new
    /\ performer = <<>>
    /\ panicked = FALSE
    /\ input = <<>>
    /\ hist = <<>>
    /\ stream = <<>>
    /\ stdin = <<>>
    /\ buf = [i \in 1..MaxChunk |-> 0]
    /\ parser2 = new
    /\ performer2 = <<>>
    /\ panicked2 = FALSE
    /\ rest2 = <<>>
    /\ NegIdle
    /\ OptIdle

Snapshot(self, n) ==
    [ state |-> self.state,
      intermediate_idx |-> self.intermediate_idx,
      sub_idx |-> self.sub_idx,
      ignoring |-> self.ignoring,
      neg_command |-> self.neg_command,
      n |-> n ]

(* One call parser.advance(&mut performer, byte).                         *)
Advance(byte) ==
    /\ ~panicked
    /\ LET c == advance(Call(parser, performer), byte)
       IN  /\ parser' = c.self
           /\ performer' = c.performer
           /\ panicked' = c.panic
    /\ input' = Append(input, byte)
    /\ hist' = Append(hist, Snapshot(parser, Len(performer)))
    /\ UNCHANGED reader_vars
    /\ UNCHANGED neg_vars
    /\ UNCHANGED opt_vars

(* Any representative bytes, up to MaxInput of them.                      *)
Next ==
    \E byte \in Bytes :
        /\ Len(input) < MaxInput
        /\ Advance(byte)

Spec == Init /\ [][Next]_vars

(* Bytes of Core followed by one byte of any value.                       *)
NextAll ==
    \E byte \in Byte :
        /\ Len(input) < MaxAllInput
        /\ \A i \in 1..Len(input) : input[i] \in Core
        /\ Advance(byte)

SpecAll == Init /\ [][NextAll]_vars

(* Subnegotiations back to back: IAC SB, bytes of SubBytes up to SE.      *)
SubInputs(state) ==
    CASE state \in {"Ground", "Data"} -> {IAC}
      [] state = "IacEntry" -> {SB}
      [] OTHER -> SubBytes

InSub == \A i \in 1..Len(input) : input[i] \in SubInputs(hist[i].state)

NextSub ==
    \E byte \in SubInputs(parser.state) :
        /\ Len(input) < MaxSubInput
        /\ InSub = TRUE
        /\ Advance(byte)

SpecSub == Init /\ [][NextSub]_vars

(* A run of LongRun printable bytes, then up to MaxRunTail bytes of       *)
(* RunBytes.                                                              *)
RunInputs(n) == IF n < LongRun THEN {114} ELSE RunBytes

InRun == \A i \in 1..Len(input) : input[i] \in RunInputs(i - 1)

NextRun ==
    \E byte \in RunInputs(Len(input)) :
        /\ Len(input) < LongRun + MaxRunTail
        /\ InRun = TRUE
        /\ Advance(byte)

SpecRun == Init /\ [][NextRun]_vars

(* A run of LongRun printable bytes, then up to MaxCapTail bytes: 'r' or  *)
(* IAC outside a command, SB after IAC, TERMINAL-TYPE or SE inside a      *)
(* subnegotiation.                                                        *)
CapInputs(state, n) ==
    IF n < LongRun THEN {114}
    ELSE CASE state \in {"Ground", "Data"} -> {114, IAC}
           [] state = "IacEntry" -> {SB}
           [] OTHER -> {24, SE}

InCap == \A i \in 1..Len(input) : input[i] \in CapInputs(hist[i].state, i - 1)

NextCap ==
    \E byte \in CapInputs(parser.state, Len(input)) :
        /\ Len(input) < LongRun + MaxCapTail
        /\ InCap = TRUE
        /\ Advance(byte)

SpecCap == Init /\ [][NextCap]_vars

(* A run of LongRun printable bytes, then up to MaxOverTail bytes: 'r' or *)
(* IAC outside a command; NOP, SB or WILL after IAC; TERMINAL-TYPE as the *)
(* option; TERMINAL-TYPE or SE inside a subnegotiation.                   *)
MaxOverTail == 7

OverInputs(state, n) ==
    IF n < LongRun THEN {114}
    ELSE CASE state \in {"Ground", "Data"} -> {114, IAC}
           [] state = "IacEntry" -> {NOP, SB, WILL}
           [] state = "NegEntry" -> {24}
           [] OTHER -> {24, SE}

InOver == \A i \in 1..Len(input) : input[i] \in OverInputs(hist[i].state, i - 1)

NextOver ==
    \E byte \in OverInputs(parser.state, Len(input)) :
        /\ Len(input) < LongRun + MaxOverTail
        /\ InOver = TRUE
        /\ Advance(byte)

SpecOver == Init /\ [][NextOver]_vars

(* ---------------------------------------------------------------------- *)
(* examples/parselog.rs, main: a process reading the stream in chunks,    *)
(* beside a parser given the same stream byte by byte.                    *)
(* ---------------------------------------------------------------------- *)
Streams == UNION {[1..n -> ChunkBytes] : n \in 0..MaxStream}

InitChunk ==
    /\ parser = new
    /\ performer = <<>>
    /\ panicked = FALSE
    /\ input = <<>>
    /\ hist = <<>>
    /\ stream \in Streams
    /\ stdin = stream
    /\ \E g \in Garbage : buf = [i \in 1..MaxChunk |-> g]
    /\ parser2 = new
    /\ performer2 = <<>>
    /\ panicked2 = FALSE
    /\ rest2 = stream
    /\ NegIdle
    /\ OptIdle

(* handle.read(&mut buf) returning Ok(n): the first n bytes of what is    *)
(* left of the stream overwrite buf[..n].                                 *)
read(in, b, n) == [i \in 1..Len(b) |-> IF i <= n THEN in[i] ELSE b[i]]

(* Mutant: the loop runs over the whole buffer, not over buf[..n].        *)
Chunk_whole(b, n) == b

(* for byte in &buf[..n] { statemachine.advance(&mut parser, *byte) }     *)
Chunk(b, n) == Slice(b, n)

RECURSIVE ForEach(_, _)
ForEach(c, bytes) ==
    IF bytes = <<>> \/ c.panic THEN c
    ELSE ForEach(advance(c, Head(bytes)), Tail(bytes))

RECURSIVE Snapshots(_, _)
Snapshots(c, bytes) ==
    IF bytes = <<>> \/ c.panic THEN <<>>
    ELSE <<Snapshot(c.self, Len(c.performer))>>
           \o Snapshots(advance(c, Head(bytes)), Tail(bytes))

(* One iteration of the process's loop: a read of n bytes and the         *)
(* advance calls on them.                                                 *)
ReadLoop(n) ==
    /\ ~panicked
    /\ n \in 1..Len(stdin)
    /\ LET b == read(stdin, buf, n)
           c == ForEach(Call(parser, performer), Chunk(b, n))
       IN  /\ buf' = b
           /\ parser' = c.self
           /\ performer' = c.performer
           /\ panicked' = c.panic
           /\ input' = input \o Chunk(b, n)
           /\ hist' = hist \o Snapshots(Call(parser, performer), Chunk(b, n))
    /\ stdin' = SubSeq(stdin, n + 1, Len(stdin))
    /\ UNCHANGED <<stream, parser2, performer2, panicked2, rest2>>
    /\ UNCHANGED neg_vars
    /\ UNCHANGED opt_vars

(* The second parser's next call: for byte in BYTES { parser.advance }.   *)
AdvanceNext ==
    /\ ~panicked2
    /\ rest2 # <<>>
    /\ LET c == advance(Call(parser2, performer2), Head(rest2))
       IN  /\ parser2' = c.self
           /\ performer2' = c.performer
           /\ panicked2' = c.panic
    /\ rest2' = Tail(rest2)
    /\ UNCHANGED <<stream, parser, performer, panicked, input, hist, stdin, buf>>
    /\ UNCHANGED neg_vars
    /\ UNCHANGED opt_vars

NextChunk ==
    \/ \E n \in 1..MaxChunk : ReadLoop(n)
    \/ AdvanceNext

SpecChunk == InitChunk /\ [][NextChunk]_vars

(* ---------------------------------------------------------------------- *)
(* Calls on a negotiator                                                  *)
(* ---------------------------------------------------------------------- *)
MaxTableCalls == 1
MaxCalls == 3
MaxApps == 5

ParserIdle ==
    /\ parser = new
    /\ performer = <<>>
    /\ panicked = FALSE
    /\ input = <<>>
    /\ hist = <<>>
    /\ stream = <<>>
    /\ stdin = <<>>
    /\ buf = [i \in 1..MaxChunk |-> 0]
    /\ parser2 = new
    /\ performer2 = <<>>
    /\ panicked2 = FALSE
    /\ rest2 = <<>>

parser_vars == <<parser, performer, panicked, input, hist, reader_vars>>

Negotiator(who) == IF who = "it" THEN it ELSE we

(* What a call leaves behind: c is the call as it began, r as it ended,   *)
(* h the calls remembered before it.                                      *)
Returned(who, op, command, option, c, r, h) ==
    /\ it' = IF who = "it" THEN r.self ELSE it
    /\ we' = IF who = "we" THEN r.self ELSE we
    /\ calls' = Append(h, [ who |-> who, op |-> op, command |-> command,
                            option |-> option, want |-> c.want,
                            pre |-> c.self, post |-> r.self,
                            sent |-> r.sent, asked |-> r.asked,
                            err |-> r.err ])
    /\ UNCHANGED <<toIt, toWe, apps>>
    /\ UNCHANGED parser_vars
    /\ UNCHANGED opt_vars

(* who.recv(&mut performer, command, option), the performer answering     *)
(* want to want_enabled                                                   *)
Recv(who, command, option, want, h) ==
    LET c == QCall(Negotiator(who), want)
    IN  Returned(who, "recv", command, option, c, recv(c, command, option), h)

(* who.enable(&mut performer, option)                                     *)
Enable(who, option, h) ==
    LET c == QCall(Negotiator(who), FALSE)
    IN  Returned(who, "enable", 0, option, c, enable(c, option), h)

(* who.disable(&mut performer, option)                                    *)
Disable(who, option, h) ==
    LET c == QCall(Negotiator(who), FALSE)
    IN  Returned(who, "disable", 0, option, c, disable(c, option), h)

(* Any call on the negotiator who.                                        *)
AnyCall(who, h) ==
    \E option \in Options :
        \/ \E command \in Commands, want \in BOOLEAN :
               Recv(who, command, option, want, h)
        \/ Enable(who, option, h)
        \/ Disable(who, option, h)

(* One negotiator whose tables hold any value in the slots of one option  *)
(* (the fields written directly, as tests::rfc1143_ex1 does), and the     *)
(* calls made on it.                                                      *)
Slots(o) ==
    { [ local |-> [Negotiator_new.local EXCEPT ![o] = l],
        localq |-> [Negotiator_new.localq EXCEPT ![o] = lq],
        remote |-> [Negotiator_new.remote EXCEPT ![o] = r],
        remoteq |-> [Negotiator_new.remoteq EXCEPT ![o] = rq] ] :
      l \in OptionState, lq \in QueueBit, r \in OptionState, rq \in QueueBit }

InitTable ==
    /\ ParserIdle
    /\ it \in UNION {Slots(o) : o \in Options}
    /\ we = Negotiator_new
    /\ calls = <<>>
    /\ toIt = <<>>
    /\ toWe = <<>>
    /\ apps = 0
    /\ OptIdle

NextTable ==
    /\ Len(calls) < MaxTableCalls
    /\ AnyCall("it", calls)

SpecTable == InitTable /\ [][NextTable]_vars

(* One negotiator from Negotiator::new and every call made on it.         *)
NextQ ==
    /\ Len(calls) < MaxCalls
    /\ AnyCall("it", calls)

SpecQ == Init /\ [][NextQ]_vars

(* One negotiator from Negotiator::new and any number of calls, the last  *)
(* of which is remembered.                                                *)
NextReach == AnyCall("it", <<>>)

SpecReach == Init /\ [][NextReach]_vars

(* One negotiator from Negotiator::new and any number of calls, the last  *)
(* two of which are remembered.                                           *)
LastOne == IF calls = <<>> THEN <<>> ELSE <<calls[Len(calls)]>>

NextPairs == AnyCall("it", LastOne)

SpecPairs == Init /\ [][NextPairs]_vars

(* Example 1 of RFC 1143 as tests::rfc1143_ex1 plays it: two negotiators  *)
(* that both know option 200 to be on, and the calls of the test in       *)
(* order. want is what the shared dispatcher's enabled[200] holds at the  *)
(* time of a recv (false until the test sets it, before its step 8); the  *)
(* test's comments number the calls 1..5 and 7..13.                       *)
BothOn ==
    [Negotiator_new EXCEPT !.local[200] = "Yes", !.remote[200] = "Yes"]

Played(who, op, command, want) ==
    [who |-> who, op |-> op, command |-> command, option |-> 200,
     want |-> want]

rfc1143_ex1 ==
    << Played("it", "disable", 0, FALSE),
       Played("it", "enable", 0, FALSE),
       Played("we", "recv", DONT, FALSE),
       Played("we", "recv", DO, FALSE),
       Played("it", "recv", WONT, FALSE),
       Played("it", "recv", WONT, FALSE),
       Played("we", "recv", DO, TRUE),
       Played("we", "disable", 0, FALSE),
       Played("it", "recv", WILL, TRUE),
       Played("it", "recv", WONT, TRUE),
       Played("we", "recv", DO, TRUE),
       Played("we", "recv", DONT, TRUE) >>

InitEx1 ==
    /\ ParserIdle
    /\ it = BothOn
    /\ we = BothOn
    /\ calls = <<>>
    /\ toIt = <<>>
    /\ toWe = <<>>
    /\ apps = 0
    /\ OptIdle

(* The calls made so far are the first calls of the test.                 *)
OnScript ==
    /\ Len(calls) <= Len(rfc1143_ex1)
    /\ \A i \in 1..Len(calls) :
           [f \in DOMAIN rfc1143_ex1[i] |-> calls[i][f]] = rfc1143_ex1[i]

(* The test's calls, and at any point of it one other call on either      *)
(* negotiator instead of the next.                                        *)
NextEx1 ==
    /\ OnScript
    /\ \/ AnyCall("it", calls)
       \/ AnyCall("we", calls)

SpecEx1 == InitEx1 /\ [][NextEx1]_vars

(* Two connected peers: each command a negotiator's performer is told to  *)
(* send is put on the channel to the other, which passes the commands it  *)
(* receives, in order, to its own recv; the applications call enable and  *)
(* disable, MaxApps times in all.                                         *)
(* The negotiator who ended a call as r, having taken `taken` commands    *)
(* off its channel.                                                       *)
Exchanged(who, r, taken) ==
    /\ it' = IF who = "it" THEN r.self ELSE it
    /\ we' = IF who = "we" THEN r.self ELSE we
    /\ toIt' = IF who = "it" THEN SubSeq(toIt, taken + 1, Len(toIt))
                             ELSE toIt \o r.sent
    /\ toWe' = IF who = "we" THEN SubSeq(toWe, taken + 1, Len(toWe))
                             ELSE toWe \o r.sent
    /\ UNCHANGED calls
    /\ UNCHANGED parser_vars
    /\ UNCHANGED opt_vars

(* The application of who calls enable(option).                           *)
AppEnable(who, option) ==
    /\ apps < MaxApps
    /\ apps' = apps + 1
    /\ Exchanged(who, enable(QCall(Negotiator(who), FALSE), option), 0)

(* The application of who calls disable(option).                          *)
AppDisable(who, option) ==
    /\ apps < MaxApps
    /\ apps' = apps + 1
    /\ Exchanged(who, disable(QCall(Negotiator(who), FALSE), option), 0)

(* who passes the next command from its peer to recv.                     *)
Deliver(who) ==
    LET from == IF who = "it" THEN toIt ELSE toWe
    IN  /\ from # <<>>
        /\ \E want \in BOOLEAN :
               Exchanged(who, recv(QCall(Negotiator(who), want),
                                   Head(from)[1], Head(from)[2]), 1)
        /\ UNCHANGED apps

NextNet ==
    \/ \E who \in {"it", "we"}, option \in Options : AppEnable(who, option)
    \/ \E who \in {"it", "we"}, option \in Options : AppDisable(who, option)
    \/ Deliver("it")
    \/ Deliver("we")

SpecNet == Init /\ [][NextNet]_vars

(* The channels are reliable: a command in flight is delivered.           *)
SpecNetFair ==
    /\ Init
    /\ [][NextNet]_vars
    /\ WF_vars(Deliver("it"))
    /\ WF_vars(Deliver("we"))

(* The parser of rabscuttle_telnet fed bytes of LegacyCore and then any   *)
(* byte, with the snapshot of its scalar fields before each byte.         *)
MaxLegacyInput == 4

LegacyCore == {13, 114, 250, 251, 255}

InitLegacy ==
    /\ parser = legacy_new
    /\ performer = <<>>
    /\ panicked = FALSE
    /\ input = <<>>
    /\ hist = <<>>
    /\ stream = <<>>
    /\ stdin = <<>>
    /\ buf = [i \in 1..MaxChunk |-> 0]
    /\ parser2 = new
    /\ performer2 = <<>>
    /\ panicked2 = FALSE
    /\ rest2 = <<>>
    /\ NegIdle
    /\ OptIdle

LegacySnapshot(self, n) ==
    [ state |-> self.state,
      intermediate_idx |-> self.intermediate_idx,
      sub_idx |-> self.sub_idx,
      ignoring |-> self.ignoring,
      n |-> n ]

LegacyAdvance(byte) ==
    /\ ~panicked
    /\ LET c == legacy_advance(Call(parser, performer), byte)
       IN  /\ parser' = c.self
           /\ performer' = c.performer
           /\ panicked' = c.panic
    /\ input' = Append(input, byte)
    /\ hist' = Append(hist, LegacySnapshot(parser, Len(performer)))
    /\ UNCHANGED reader_vars
    /\ UNCHANGED neg_vars
    /\ UNCHANGED opt_vars

NextLegacy ==
    \E byte \in Byte :
        /\ Len(input) < MaxLegacyInput
        /\ \A i \in 1..Len(input) : input[i] \in LegacyCore
        /\ LegacyAdvance(byte)

SpecLegacy == InitLegacy /\ [][NextLegacy]_vars

(* The parser and a negotiator wired by the application: the performer's  *)
(* negotiate_dispatch(cmd, opt) converts cmd with Command::from_u8 and    *)
(* passes it with opt to Negotiator::recv, within the advance call that   *)
(* made the callback. The bytes fed depend on the parser's state: in      *)
(* Ground and Data 'r', WILL, IAC; after IAC the commands NOP, SB, WILL,  *)
(* WONT, DO, DONT; in the option position and in a subnegotiation         *)
(* TERMINAL-TYPE, 200, SE, WILL, IAC.                                     *)
MaxWiredInput == 7

WiredOptions == {24, 200, 240, 251, 255}

WiredInputs(state) ==
    CASE state \in {"Ground", "Data"} -> {114, WILL, IAC}
      [] state = "IacEntry" -> {NOP, SB, WILL, WONT, DO, DONT}
      [] OTHER -> WiredOptions

InWired == \A i \in 1..Len(input) : input[i] \in WiredInputs(hist[i].state)

(* Negotiator::new, the entries of WiredOptions *)
WiredNegotiator ==
    [ local |-> [o \in WiredOptions |-> "No"],
      localq |-> [o \in WiredOptions |-> "Empty"],
      remote |-> [o \in WiredOptions |-> "No"],
      remoteq |-> [o \in WiredOptions |-> "Empty"] ]

InitWired ==
    /\ ParserIdle
    /\ it = WiredNegotiator
    /\ we = Negotiator_new
    /\ calls = <<>>
    /\ toIt = <<>>
    /\ toWe = <<>>
    /\ apps = 0
    /\ OptIdle

(* negotiate_dispatch(cmd, opt) of the wiring performer; h the calls      *)
(* before it.                                                             *)
Forwarded(cmd, opt, want, h) ==
    LET command == Command_from_u8(cmd)
        c == QCall(it, want)
        r == IF command.ok THEN recv(c, command.v, opt)
             ELSE Some(c, "InvalidCommand")
    IN  /\ it' = r.self
        /\ calls' = Append(h, [ who |-> "it", op |-> "recv", command |-> cmd,
                                option |-> opt, want |-> want,
                                pre |-> it, post |-> r.self,
                                sent |-> r.sent, asked |-> r.asked,
                                err |-> r.err ])

(* parser.advance(&mut performer, byte), the performer forwarding.        *)
Feed(byte, want) ==
    /\ ~panicked
    /\ LET c == advance(Call(parser, performer), byte)
           made == SubSeq(c.performer, Len(performer) + 1, Len(c.performer))
           negs == SelectSeq(made, LAMBDA e : e.kind = "negotiate_dispatch")
       IN  /\ parser' = c.self
           /\ performer' = c.performer
           /\ panicked' = c.panic
           /\ IF negs = <<>>
              THEN UNCHANGED <<it, calls>>
              ELSE Forwarded(negs[1].cmd, negs[1].byte, want, calls)
    /\ input' = Append(input, byte)
    /\ hist' = Append(hist, Snapshot(parser, Len(performer)))
    /\ UNCHANGED <<we, toIt, toWe, apps>>
    /\ UNCHANGED reader_vars
    /\ UNCHANGED opt_vars

NextWired ==
    \E byte \in WiredInputs(parser.state), want \in BOOLEAN :
        /\ Len(input) < MaxWiredInput
        /\ InWired = TRUE
        /\ Feed(byte, want)

SpecWired == InitWired /\ [][NextWired]_vars

(* Opt::from_u8 called on any u8.                                         *)
InitOpt ==
    /\ ParserIdle
    /\ NegIdle
    /\ octet \in Byte
    /\ converted = NotCalled

FromU8 ==
    /\ ~converted.called
    /\ converted' = [called |-> TRUE] @@ from_u8(octet)
    /\ UNCHANGED octet
    /\ UNCHANGED parser_vars
    /\ UNCHANGED neg_vars

NextOpt == FromU8

SpecOpt == InitOpt /\ [][NextOpt]_vars

(* ---------------------------------------------------------------------- *)
(* Properties                                                             *)
(* ---------------------------------------------------------------------- *)
Last == Len(input)

(* The callbacks made since the i-th advance call began.                  *)
EventsSince(i) == SubSeq(performer, hist[i].n + 1, Len(performer))

(* The callbacks of the last advance call.                                *)
NewEvents == EventsSince(Last)

(* The i-th byte was received in Ground or Data.                          *)
InGround(i) == hist[i].state \in {"Ground", "Data"}

Min(a, b) == IF a <= b THEN a ELSE b

Max(S) == CHOOSE x \in S : \A y \in S : y <= x

(* C1: a byte executed in Ground while a data run is pending (collected   *)
(* and not yet delivered) makes the sink receive data(buffer, ignoring)   *)
(* first and execute(byte) second.                                        *)
C1_DataBeforeExecute ==
    ( /\ Last > 0
      /\ hist[Last].state = "Ground"
      /\ hist[Last].intermediate_idx > 0
      /\ input[Last] \in (0..31) \cup (128..254) )
    => NewEvents = << DataEv(Slice(parser.intermediates, hist[Last].intermediate_idx),
                             hist[Last].ignoring),
                      ExecuteEv(input[Last]) >>

(* C2: whenever the process reading in chunks and the parser fed byte by  *)
(* byte have consumed the same prefix of the stream, they have made the   *)
(* same callbacks and are in the same parser state.                       *)
C2_ChunkingIndependence ==
    Len(stdin) = Len(rest2)
    => /\ performer = performer2
       /\ parser = parser2
       /\ panicked = panicked2

(* The whole stream 'r' CR IAC WILL consumed by both, the chunked reader  *)
(* having read three bytes at once and then one.                          *)
C2_Witness ==
    /\ stream = <<114, 13, 255, 251>>
    /\ stdin = <<>>
    /\ rest2 = <<>>
    /\ buf = <<251, 13, 255>>
    /\ Len(performer) = 2
    /\ parser.state = "NegEntry"

(* The bytes the sink was given by data and execute callbacks, in the     *)
(* order of the callbacks.                                                *)
RECURSIVE Payload(_)
Payload(evs) ==
    IF evs = <<>> THEN <<>>
    ELSE (CASE Head(evs).kind = "data" -> Head(evs).bytes
            [] Head(evs).kind = "execute" -> <<Head(evs).byte>>
            [] OTHER -> <<>>) \o Payload(Tail(evs))

(* C3: for an input without IAC whose last byte was executed (so that no  *)
(* byte is still held in the buffer), the payloads of the data and        *)
(* execute callbacks, concatenated in order, are the input.               *)
C3_RoundTrip ==
    ( /\ \A i \in 1..Last : input[i] # IAC
      /\ parser.state = "Data" )
    => Payload(performer) = input

(* C4: no advance call panics, both cursors stay within their buffer's    *)
(* capacity, and no write lands outside a buffer.                         *)
C4_CursorsInBounds ==
    /\ ~panicked
    /\ parser.state \in State
    /\ parser.intermediate_idx \in 0..MAX_INTERMEDIATES
    /\ parser.sub_idx \in 0..MAX_SUBS
    /\ Len(parser.intermediates) <= MAX_INTERMEDIATES
    /\ Len(parser.subs) = MAX_SUBS

(* A run of MAX_INTERMEDIATES + 1 printable bytes delivered with          *)
(* ignoring set, then a subnegotiation of MAX_SUBS + 1 bytes.             *)
C4_Witness ==
    /\ Last = LongRun + 14
    /\ \A i \in (LongRun + 5)..(LongRun + 13) : input[i] = 24
    /\ Len(performer) = 2
    /\ performer[1].kind = "data"
    /\ performer[1].ignoring
    /\ Len(performer[1].bytes) = MAX_INTERMEDIATES
    /\ performer[2].kind = "sub_dispatch"
    /\ parser.sub_idx = MAX_SUBS

(* The last byte was appended to the data buffer, or dropped with         *)
(* ignoring set when the buffer was full, and no callback was made.       *)
Appended ==
    LET base == IF hist[Last].state = "Data" THEN 0 ELSE hist[Last].intermediate_idx
    IN  /\ NewEvents = <<>>
        /\ IF base < MAX_INTERMEDIATES
           THEN /\ parser.intermediate_idx = base + 1
                /\ parser.intermediates[base + 1] = input[Last]
           ELSE /\ parser.intermediate_idx = MAX_INTERMEDIATES
                /\ parser.ignoring

(* The last advance call passed its byte to execute.                      *)
Executed == \E k \in 1..Len(NewEvents) : NewEvents[k] = ExecuteEv(input[Last])

C6_NegotiationFraming ==
    ( /\ Last >= 3
      /\ InGround(Last - 2)
      /\ hist[Last - 2].intermediate_idx = 0
      /\ input[Last - 2] = IAC
      /\ input[Last - 1] \in 251..254 )
    => /\ EventsSince(Last - 2) = <<NegEv(input[Last - 1], input[Last])>>
       /\ parser.state = "Ground"
       /\ parser.intermediate_idx = 0
       /\ parser.sub_idx = hist[Last - 2].sub_idx

(* CR IAC DONT 0xFF: the option byte 0xFF is dispatched as the option.    *)
C6_Witness ==
    /\ input = <<13, 255, 254, 255>>
    /\ performer = <<ExecuteEv(13), NegEv(254, 255)>>
    /\ parser.state = "Ground"

(* C7: a byte outside 0xFA..0xFE received in IacEntry makes exactly the   *)
(* callback iac_dispatch(byte) and leads to Ground; IAC and such a byte   *)
(* received in Ground with an empty data buffer make no other callback.   *)
C7_TwoByteCommands ==
    /\ ( /\ Last >= 1
         /\ hist[Last].state = "IacEntry"
         /\ input[Last] \notin 250..254 )
       => /\ NewEvents = <<IacEv(input[Last])>>
          /\ parser.state = "Ground"
    /\ ( /\ Last >= 2
         /\ hist[Last - 1].state = "Ground"
         /\ hist[Last - 1].intermediate_idx = 0
         /\ input[Last - 1] = IAC
         /\ input[Last] \notin 250..254 )
       => EventsSince(Last - 1) = <<IacEv(input[Last])>>

(* IAC IAC from a new parser: iac_dispatch(0xFF).                         *)
C7_Witness ==
    /\ input = <<255, 255>>
    /\ performer = <<IacEv(255)>>
    /\ parser.state = "Ground"

(* The last byte was received inside a subnegotiation.                    *)
InSubState == Last > 0 /\ hist[Last].state \in {"SubEntry", "SubIntermediate"}

(* The position of the SB that opened the subnegotiation in progress.     *)
SubOpen == Max({j \in 1..Last : hist[j].state = "IacEntry" /\ input[j] = SB})

(* The bytes received since that SB, the last byte included or not.       *)
SubReceived(upto) == SubSeq(input, SubOpen + 1, upto)

Prefix(q, n) == SubSeq(q, 1, Min(Len(q), n))

(* C8: inside a subnegotiation every byte but 0xF0 is stored as payload   *)
(* (the first MAX_SUBS of them) with no callback and no change of state;  *)
(* 0xF0 leads to Ground and makes one callback, sub_dispatch of the first *)
(* min(n, MAX_SUBS) of the n bytes received since SB, or none if n = 0.   *)
C8_SubFraming ==
    InSubState =>
        IF input[Last] = SE
        THEN /\ parser.state = "Ground"
             /\ NewEvents = IF SubReceived(Last - 1) = <<>> THEN <<>>
                            ELSE <<SubEv(Prefix(SubReceived(Last - 1), MAX_SUBS))>>
        ELSE /\ parser.state = "SubIntermediate"
             /\ NewEvents = <<>>
             /\ subs(parser) = Prefix(SubReceived(Last), MAX_SUBS)
             /\ parser.ignoring = hist[Last].ignoring

(* A subnegotiation of MAX_SUBS + 1 bytes, then one of a single 0xFF.     *)
C8_Witness ==
    /\ input = <<255, 250, 24, 24, 24, 24, 24, 24, 24, 24, 24, 240,
                 255, 250, 255, 240>>
    /\ performer = <<SubEv(<<24, 24, 24, 24, 24, 24, 24, 24>>), SubEv(<<255>>)>>
    /\ parser.state = "Ground"

(* The last byte is the SE of a frame IAC SB opt ... IAC SE.              *)
FrameEnd ==
    /\ InSubState
    /\ input[Last] = SE
    /\ Last - 1 - SubOpen >= 2
    /\ input[Last - 1] = IAC

(* C9 as stated: the payload of the sub_dispatch for IAC SB opt ... IAC   *)
(* SE holds neither the option byte nor the IAC of IAC SE: it is made of  *)
(* the bytes between them.                                                *)
C9_PayloadExcludesOption ==
    FrameEnd =>
        \A k \in 1..Len(NewEvents) :
            NewEvents[k].kind = "sub_dispatch"
            => NewEvents[k].bytes
                 = Prefix(SubSeq(input, SubOpen + 2, Last - 2), MAX_SUBS)

(* C9 amended: the payload holds no byte of the IAC SB introducer and not *)
(* the SE; it starts with the option byte and goes on with the bytes that *)
(* follow it, the IAC of IAC SE included when it is among the first       *)
(* MAX_SUBS bytes after SB.                                               *)
C9_PayloadFromOption ==
    FrameEnd =>
        LET n == Last - 1 - SubOpen
        IN  /\ Len(NewEvents) = 1
            /\ NewEvents[1].kind = "sub_dispatch"
            /\ Len(NewEvents[1].bytes) = Min(n, MAX_SUBS)
            /\ \A j \in 1..Len(NewEvents[1].bytes) :
                   NewEvents[1].bytes[j] = input[SubOpen + j]
            /\ n <= MAX_SUBS => NewEvents[1].bytes[n] = IAC

(* IAC SB TERMINAL-TYPE IAC SE: the payload is the option byte and IAC.   *)
C9_Witness ==
    /\ input = <<255, 250, 24, 255, 240>>
    /\ performer = <<SubEv(<<24, 255>>)>>

(* The i-th byte was collected: a byte of 0x20..0x7F in Ground or Data.   *)
Collected(i) == InGround(i) /\ input[i] \in 32..127

(* Where the run of collected bytes that ends before the last byte begins *)
(* (Last when the byte before the last was not collected).                *)
RunStart ==
    LET N == {j \in 1..(Last - 1) : ~Collected(j)}
    IN  IF N = {} THEN 1 ELSE Max(N) + 1

RunLen == Last - RunStart

IsData(e) == e.kind = "data"

(* C10: a data callback is made only by a byte that ends a run of         *)
(* collected bytes, and then once, with the first MAX_INTERMEDIATES bytes *)
(* of the run and with ignoring true exactly when the run was longer.     *)
C10_OverflowSignalled ==
    Last > 0 =>
        SelectSeq(NewEvents, IsData)
          = IF InGround(Last) /\ ~Collected(Last) /\ RunLen > 0
            THEN << DataEv(SubSeq(input, RunStart,
                                  RunStart + Min(RunLen, MAX_INTERMEDIATES) - 1),
                           RunLen > MAX_INTERMEDIATES) >>
            ELSE <<>>

(* A run of MAX_INTERMEDIATES + 1 bytes delivered with ignoring true,     *)
(* then a run of one byte delivered with ignoring false.                  *)
C10_Witness ==
    /\ Last = MAX_INTERMEDIATES + 4
    /\ performer = << ExecuteEv(13),
                      DataEv([i \in 1..MAX_INTERMEDIATES |-> 114], TRUE),
                      ExecuteEv(13),
                      DataEv(<<114>>, FALSE) >>

(* ---------------------------------------------------------------------- *)
(* Properties of the negotiator                                           *)
(* ---------------------------------------------------------------------- *)
LastCall == calls[Len(calls)]

(* The slot of option o in the remote or the local tables of n.           *)
Slot(n, side, o) ==
    IF side = "remote" THEN <<n.remote[o], n.remoteq[o]>>
    ELSE <<n.local[o], n.localq[o]>>

(* The call changed nothing but the slot of its option on the given side. *)
OnlySlot(k, side) ==
    /\ \A o \in Options \ {k.option} :
           /\ Slot(k.post, "remote", o) = Slot(k.pre, "remote", o)
           /\ Slot(k.post, "local", o) = Slot(k.pre, "local", o)
    /\ IF side = "remote"
       THEN Slot(k.post, "local", k.option) = Slot(k.pre, "local", k.option)
       ELSE Slot(k.post, "remote", k.option) = Slot(k.pre, "remote", k.option)

(* The call took the slot to <<s, q>>, sent the commands cmds on its      *)
(* option and returned err.                                               *)
Outcome(k, side, s, q, cmds, err) ==
    /\ Slot(k.post, side, k.option) = <<s, q>>
    /\ k.sent = [i \in 1..Len(cmds) |-> <<cmds[i], k.option>>]
    /\ k.err = err

(* C11: recv of WILL acts on the remote slot of its option as the table   *)
(* of RFC 1143 says, and asks want_enabled only when the slot is No.      *)
C11_RecvWill ==
    (calls # <<>> /\ LastCall.op = "recv" /\ LastCall.command = WILL) =>
        LET k == LastCall
            s == Slot(k.pre, "remote", k.option)[1]
            q == Slot(k.pre, "remote", k.option)[2]
        IN  /\ OnlySlot(k, "remote")
            /\ k.asked <=> s = "No"
            /\ s = "No" /\ k.want => Outcome(k, "remote", "Yes", q, <<DO>>, "None")
            /\ s = "No" /\ ~k.want => Outcome(k, "remote", "No", q, <<DONT>>, "None")
            /\ s = "Yes" => Outcome(k, "remote", "Yes", q, <<>>, "None")
            /\ s = "WantNo" /\ q = "Empty" =>
                   Outcome(k, "remote", "No", "Empty", <<>>, "DontAnsweredByWill")
            /\ s = "WantNo" /\ q = "Opposite" =>
                   Outcome(k, "remote", "Yes", "Empty", <<>>, "DontAnsweredByWill")
            /\ s = "WantYes" /\ q = "Empty" =>
                   Outcome(k, "remote", "Yes", "Empty", <<>>, "None")
            /\ s = "WantYes" /\ q = "Opposite" =>
                   Outcome(k, "remote", "WantNo", "Empty", <<DONT>>, "None")

(* A WILL received with a disable queued behind an enable: the remote     *)
(* slot goes to (WantNo, Empty) and DONT is sent.                         *)
C11_Witness ==
    /\ calls # <<>>
    /\ LastCall.op = "recv"
    /\ LastCall.command = WILL
    /\ Slot(LastCall.pre, "remote", LastCall.option) = <<"WantYes", "Opposite">>
    /\ Slot(it, "remote", LastCall.option) = <<"WantNo", "Empty">>
    /\ LastCall.sent = <<<<DONT, LastCall.option>>>>

(* C12: recv of WONT acts on the remote slot of its option as the table   *)
(* of RFC 1143 says; it returns no error and never asks want_enabled.     *)
C12_RecvWont ==
    (calls # <<>> /\ LastCall.op = "recv" /\ LastCall.command = WONT) =>
        LET k == LastCall
            s == Slot(k.pre, "remote", k.option)[1]
            q == Slot(k.pre, "remote", k.option)[2]
        IN  /\ OnlySlot(k, "remote")
            /\ ~k.asked
            /\ s = "No" => Outcome(k, "remote", "No", q, <<>>, "None")
            /\ s = "Yes" => Outcome(k, "remote", "No", q, <<DONT>>, "None")
            /\ s = "WantNo" /\ q = "Empty" =>
                   Outcome(k, "remote", "No", "Empty", <<>>, "None")
            /\ s = "WantNo" /\ q = "Opposite" =>
                   Outcome(k, "remote", "WantYes", "Empty", <<DO>>, "None")
            /\ s = "WantYes" /\ q = "Empty" =>
                   Outcome(k, "remote", "No", "Empty", <<>>, "None")
            /\ s = "WantYes" /\ q = "Opposite" =>
                   Outcome(k, "remote", "No", "Empty", <<>>, "None")

(* A WONT received with an enable queued behind a disable: the remote     *)
(* slot goes to (WantYes, Empty) and DO is sent.                          *)
C12_Witness ==
    /\ calls # <<>>
    /\ LastCall.op = "recv"
    /\ LastCall.command = WONT
    /\ Slot(LastCall.pre, "remote", LastCall.option) = <<"WantNo", "Opposite">>
    /\ Slot(it, "remote", LastCall.option) = <<"WantYes", "Empty">>
    /\ LastCall.sent = <<<<DO, LastCall.option>>>>

(* The negotiator with its local and remote tables exchanged.             *)
Swap(n) ==
    [ local |-> n.remote, localq |-> n.remoteq,
      remote |-> n.local, remoteq |-> n.localq ]

(* The mirror of what a call on the remote side sent and returned.        *)
MirrorCommand(command) ==
    CASE command = DO -> WILL
      [] command = DONT -> WONT
      [] command = WILL -> DO
      [] command = WONT -> DONT
      [] OTHER -> command

MirrorSent(q) == [i \in 1..Len(q) |-> <<MirrorCommand(q[i][1]), q[i][2]>>]

MirrorError(e) ==
    IF e = "DontAnsweredByWill" THEN "WontAnsweredByDo" ELSE e

(* C13: recv of DO (of DONT) does to the local slot what recv of WILL (of *)
(* WONT) does to a remote slot holding the same value, sends the mirrored *)
(* command and returns the mirrored error, and touches nothing else.      *)
C13_MirrorSymmetry ==
    (calls # <<>> /\ LastCall.op = "recv" /\ LastCall.command \in {DO, DONT}) =>
        LET k == LastCall
            r == recv(QCall(Swap(k.pre), k.want),
                      MirrorCommand(k.command), k.option)
        IN  /\ OnlySlot(k, "local")
            /\ k.post = Swap(r.self)
            /\ k.sent = MirrorSent(r.sent)
            /\ k.err = MirrorError(r.err)
            /\ k.asked = r.asked

(* A DO received with the local slot in (WantNo, Opposite): the slot goes *)
(* to (Yes, Empty) and WontAnsweredByDo is returned.                      *)
C13_Witness ==
    /\ calls # <<>>
    /\ LastCall.op = "recv"
    /\ LastCall.command = DO
    /\ Slot(LastCall.pre, "local", LastCall.option) = <<"WantNo", "Opposite">>
    /\ Slot(it, "local", LastCall.option) = <<"Yes", "Empty">>
    /\ LastCall.err = "WontAnsweredByDo"
    /\ LastCall.sent = <<>>

(* The call returned err, sent nothing and changed nothing.               *)
Refused(k, err) ==
    /\ k.post = k.pre
    /\ k.sent = <<>>
    /\ k.err = err

(* C14: enable acts on the remote slot of its option as the table says.   *)
C14_Enable ==
    (calls # <<>> /\ LastCall.op = "enable") =>
        LET k == LastCall
            s == Slot(k.pre, "remote", k.option)[1]
            q == Slot(k.pre, "remote", k.option)[2]
        IN  /\ OnlySlot(k, "remote")
            /\ ~k.asked
            /\ s = "No" => Outcome(k, "remote", "WantYes", q, <<DO>>, "None")
            /\ s = "Yes" => Refused(k, "AlreadyEnabled")
            /\ s = "WantNo" /\ q = "Empty" =>
                   Outcome(k, "remote", "WantNo", "Opposite", <<>>, "None")
            /\ s = "WantNo" /\ q = "Opposite" => Refused(k, "AlreadyQueued")
            /\ s = "WantYes" /\ q = "Empty" => Refused(k, "AlreadyNegotiating")
            /\ s = "WantYes" /\ q = "Opposite" =>
                   Outcome(k, "remote", "WantYes", "Empty", <<>>, "None")

(* enable called while a disable is in flight: queued, nothing sent.      *)
C14_Witness ==
    /\ calls # <<>>
    /\ LastCall.op = "enable"
    /\ Slot(LastCall.pre, "remote", LastCall.option) = <<"WantNo", "Empty">>
    /\ Slot(it, "remote", LastCall.option) = <<"WantNo", "Opposite">>
    /\ LastCall.sent = <<>>
    /\ LastCall.err = "None"

(* C15: disable acts on the remote slot of its option as the table says.  *)
C15_Disable ==
    (calls # <<>> /\ LastCall.op = "disable") =>
        LET k == LastCall
            s == Slot(k.pre, "remote", k.option)[1]
            q == Slot(k.pre, "remote", k.option)[2]
        IN  /\ OnlySlot(k, "remote")
            /\ ~k.asked
            /\ s = "No" => Refused(k, "AlreadyDisabled")
            /\ s = "Yes" => Outcome(k, "remote", "WantNo", q, <<DONT>>, "None")
            /\ s = "WantNo" /\ q = "Empty" => Refused(k, "AlreadyNegotiating")
            /\ s = "WantNo" /\ q = "Opposite" =>
                   Outcome(k, "remote", "WantNo", "Empty", <<>>, "None")
            /\ s = "WantYes" /\ q = "Empty" =>
                   Outcome(k, "remote", "WantYes", "Opposite", <<>>, "None")
            /\ s = "WantYes" /\ q = "Opposite" => Refused(k, "AlreadyQueued")

(* disable called while an enable is in flight: queued, nothing sent.     *)
C15_Witness ==
    /\ calls # <<>>
    /\ LastCall.op = "disable"
    /\ Slot(LastCall.pre, "remote", LastCall.option) = <<"WantYes", "Empty">>
    /\ Slot(it, "remote", LastCall.option) = <<"WantYes", "Opposite">>
    /\ LastCall.sent = <<>>
    /\ LastCall.err = "None"

(* Every slot of n that holds No or Yes has an empty queue.               *)
QInvariant(n) ==
    \A o \in Options :
        /\ n.remote[o] \in {"No", "Yes"} => n.remoteq[o] = "Empty"
        /\ n.local[o] \in {"No", "Yes"} => n.localq[o] = "Empty"

(* C16: from Negotiator::new, after any calls of recv, enable and disable *)
(* with any options and any answers of want_enabled, every slot, local or *)
(* remote, that holds No or Yes has queue bit Empty.                      *)
C16_QInvariant == QInvariant(it)

(* A WONT received with a disable queued behind an enable, while the      *)
(* other option is enabled: the slot settles on No and the queue is       *)
(* emptied.                                                               *)
C16_Witness ==
    /\ calls # <<>>
    /\ LastCall.op = "recv"
    /\ LastCall.command = WONT
    /\ Slot(LastCall.pre, "remote", LastCall.option) = <<"WantYes", "Opposite">>
    /\ Slot(it, "remote", LastCall.option) = <<"No", "Empty">>
    /\ \E o \in Options \ {LastCall.option} :
           Slot(it, "remote", o) = <<"Yes", "Empty">>

(* The commands sent during the calls cs, in order.                       *)
RECURSIVE SentDuring(_)
SentDuring(cs) ==
    IF cs = <<>> THEN <<>> ELSE Head(cs).sent \o SentDuring(Tail(cs))

(* The calls made so far are enable(o); recv(WILL, o) on a new negotiator.*)
EnableThenWill(o) ==
    /\ Len(calls) = 2
    /\ calls[1].op = "enable" /\ calls[1].option = o
    /\ calls[2].op = "recv" /\ calls[2].command = WILL /\ calls[2].option = o

(* C18 as stated: enable(o); recv(WILL, o) from the initial state leaves  *)
(* the local-side slot of o in (Yes, Empty), and exactly one command,     *)
(* DO o, has been sent.                                                   *)
C18_EnableWillLocal ==
    \A o \in Options :
        EnableThenWill(o) =>
            /\ Slot(it, "local", o) = <<"Yes", "Empty">>
            /\ SentDuring(calls) = <<<<DO, o>>>>

(* C18 amended: enable(o); recv(WILL, o) from the initial state leaves    *)
(* the remote-side slot of o in (Yes, Empty) and the local-side slot in   *)
(* (No, Empty); exactly one command, DO o, has been sent, by enable, and  *)
(* neither call returns an error.                                         *)
C18_EnableWillRemote ==
    \A o \in Options :
        EnableThenWill(o) =>
            /\ Slot(it, "remote", o) = <<"Yes", "Empty">>
            /\ Slot(it, "local", o) = <<"No", "Empty">>
            /\ SentDuring(calls) = <<<<DO, o>>>>
            /\ calls[1].sent = <<<<DO, o>>>>
            /\ calls[1].err = "None" /\ calls[2].err = "None"

(* enable(200); recv(WILL, 200) done: the remote slot holds Yes.          *)
C18_Witness ==
    /\ EnableThenWill(200)
    /\ it.remote[200] = "Yes"
    /\ it.local[200] = "No"

(* The calls made so far are enable(o); disable(o); recv(WILL, o).        *)
DoubleToggle(o) ==
    /\ Len(calls) = 3
    /\ calls[1].op = "enable" /\ calls[1].option = o
    /\ calls[2].op = "disable" /\ calls[2].option = o
    /\ calls[3].op = "recv" /\ calls[3].command = WILL /\ calls[3].option = o

(* C19: enable(o); disable(o); recv(WILL, o) from the initial state sends *)
(* DO during enable, nothing during disable and DONT during recv, returns *)
(* no error, and leaves the remote slot of o in (WantNo, Empty).          *)
C19_DoubleToggle ==
    \A o \in Options :
        DoubleToggle(o) =>
            /\ calls[1].sent = <<<<DO, o>>>>
            /\ calls[2].sent = <<>>
            /\ calls[3].sent = <<<<DONT, o>>>>
            /\ SentDuring(calls) = << <<DO, o>>, <<DONT, o>> >>
            /\ \A i \in 1..3 : calls[i].err = "None"
            /\ Slot(it, "remote", o) = <<"WantNo", "Empty">>

(* The double toggle done on option 24, whatever want_enabled answers.    *)
C19_Witness ==
    /\ DoubleToggle(24)
    /\ calls[3].want
    /\ Slot(calls[3].pre, "remote", 24) = <<"WantYes", "Opposite">>
    /\ it.remote[24] = "WantNo"

(* The last call sent exactly the command cmd for option 200.             *)
SentOne(cmd) == LastCall.sent = <<<<cmd, 200>>>>

Settled(n) ==
    \A o \in Options :
        /\ n.remote[o] \in {"No", "Yes"}
        /\ n.local[o] \in {"No", "Yes"}

Quiescent == toIt = <<>> /\ toWe = <<>>

(* C17: two connected negotiators converge: whatever enable and disable   *)
(* calls the applications make and whatever want_enabled answers, once    *)
(* the calls have stopped the channels become and stay empty and no slot  *)
(* of either side stays in WantNo or WantYes.                             *)
C17_Converges == <>[](Quiescent /\ Settled(it) /\ Settled(we))

(* All the applications' calls made and answered: option 200 is on from   *)
(* it to we, option 24 was asked for by we and refused by it.             *)
C17_Witness ==
    /\ apps = MaxApps
    /\ Quiescent
    /\ Settled(it) /\ Settled(we)
    /\ it.remote[200] = "Yes" /\ we.local[200] = "Yes"
    /\ we.remote[24] = "No" /\ it.local[24] = "No"

(* C21: a call of recv, enable or disable sends at most one command, and  *)
(* a command it sends is for the option of the call.                      *)
C21_AtMostOneSend ==
    calls # <<>> =>
        /\ Len(LastCall.sent) <= 1
        /\ \A i \in 1..Len(LastCall.sent) :
               /\ LastCall.sent[i][2] = LastCall.option
               /\ LastCall.sent[i][1] \in {WILL, WONT, DO, DONT}

(* A DO accepted for option 24 while option 200 is the one whose slots    *)
(* were written: one command, WILL 24, is sent.                           *)
C21_Witness ==
    /\ calls # <<>>
    /\ LastCall.op = "recv"
    /\ LastCall.command = DO
    /\ LastCall.option = 24
    /\ LastCall.pre.remote[200] = "WantYes"
    /\ LastCall.sent = <<<<WILL, 24>>>>

(* C22: recv of a command other than WILL, WONT, DO, DONT returns         *)
(* UnknownCommand, sends nothing, does not ask want_enabled and changes   *)
(* no table; no other call returns UnknownCommand.                        *)
C22_UnknownCommand ==
    calls # <<>> =>
        LET k == LastCall
            unknown == k.op = "recv" /\ k.command \notin {WILL, WONT, DO, DONT}
        IN  /\ unknown => /\ k.err = "UnknownCommand"
                          /\ k.sent = <<>>
                          /\ ~k.asked
                          /\ k.post = k.pre
            /\ k.err = "UnknownCommand" => unknown

(* NOP passed to recv while the remote slot waits with a queued request.  *)
C22_Witness ==
    /\ calls # <<>>
    /\ LastCall.op = "recv"
    /\ LastCall.command = NOP
    /\ LastCall.err = "UnknownCommand"
    /\ Slot(it, "remote", LastCall.option) = <<"WantYes", "Opposite">>

(* The call was recv of a negotiation command, enable or disable.         *)
TableCall(k) ==
    k.op \in {"enable", "disable"} \/ k.command \in {WILL, WONT, DO, DONT}

(* C23 as stated: whatever cell the slot is in, the branch a call takes   *)
(* changes the slot or sends a command (or both).                         *)
C23_EveryBranchActs ==
    (calls # <<>> /\ TableCall(LastCall)) =>
        \/ LastCall.post # LastCall.pre
        \/ LastCall.sent # <<>>

(* The rows of RFC 1143 that ignore what was received: WILL in Yes, WONT  *)
(* in No, DO in Yes, DONT in No.                                          *)
IgnoreRow(k) ==
    /\ k.op = "recv"
    /\ \/ k.command = WILL /\ k.pre.remote[k.option] = "Yes"
       \/ k.command = WONT /\ k.pre.remote[k.option] = "No"
       \/ k.command = DO /\ k.pre.local[k.option] = "Yes"
       \/ k.command = DONT /\ k.pre.local[k.option] = "No"

(* C23 amended: a branch changes the slot, sends a command, returns an    *)
(* error or is one of the four ignore rows; from the initial state a      *)
(* remote slot reaches the six cells No, Yes (queue Empty) and WantNo,    *)
(* WantYes (queue Empty or Opposite) and no other, and a local slot       *)
(* reaches only No and Yes (queue Empty).                                 *)
C23_BranchesAndCells ==
    /\ (calls # <<>> /\ TableCall(LastCall)) =>
           \/ LastCall.post # LastCall.pre
           \/ LastCall.sent # <<>>
           \/ LastCall.err # "None"
           \/ IgnoreRow(LastCall)
    /\ \A o \in Options :
           /\ Slot(it, "local", o) \in {<<"No", "Empty">>, <<"Yes", "Empty">>}
           /\ Slot(it, "remote", o) \in
                  {<<"No", "Empty">>, <<"Yes", "Empty">>} \cup
                  ({"WantNo", "WantYes"} \X QueueBit)

(* Both queued cells held at once, one on each option, after a DONT was   *)
(* ignored in No.                                                         *)
C23_Witness ==
    /\ Slot(it, "remote", 24) = <<"WantNo", "Opposite">>
    /\ Slot(it, "remote", 200) = <<"WantYes", "Opposite">>
    /\ calls # <<>>
    /\ IgnoreRow(LastCall)
    /\ LastCall.command = DONT
    /\ LastCall.post = LastCall.pre
    /\ LastCall.sent = <<>>

(* Where an answer that contradicts the request in flight leaves the      *)
(* slot: No if nothing was queued, Yes if the opposite was; queue Empty.  *)
AfterContradiction(k, side) ==
    LET s == Slot(k.pre, side, k.option)[1]
        q == Slot(k.pre, side, k.option)[2]
    IN  /\ s = "WantNo"
        /\ Slot(k.post, side, k.option)
             = IF q = "Empty" THEN <<"No", "Empty">> ELSE <<"Yes", "Empty">>
        /\ k.sent = <<>>

(* C24: a call that returns DontAnsweredByWill or WontAnsweredByDo has    *)
(* moved the slot out of WantNo, to No (queue was Empty) or to Yes (queue *)
(* was Opposite), queue Empty, and sent nothing; a call that returns one  *)
(* of the Already.. errors has changed and sent nothing; after any error  *)
(* the Q invariant holds if it held before the call.                      *)
C24_ErrorsAdvisory ==
    (calls # <<>> /\ LastCall.err # "None") =>
        LET k == LastCall
        IN  /\ k.err = "DontAnsweredByWill" =>
                   (k.command = WILL /\ AfterContradiction(k, "remote"))
            /\ k.err = "WontAnsweredByDo" =>
                   (k.command = DO /\ AfterContradiction(k, "local"))
            /\ k.err \in {"AlreadyEnabled", "AlreadyDisabled",
                          "AlreadyNegotiating", "AlreadyQueued"} =>
                   /\ k.op \in {"enable", "disable"}
                   /\ k.post = k.pre
                   /\ k.sent = <<>>
            /\ k.post = it
            /\ QInvariant(k.pre) => QInvariant(it)

(* A WILL received while a disable was in flight with an enable queued    *)
(* behind it: DontAnsweredByWill, and the slot is (Yes, Empty).           *)
C24_Witness ==
    /\ calls # <<>>
    /\ LastCall.err = "DontAnsweredByWill"
    /\ Slot(LastCall.pre, "remote", LastCall.option) = <<"WantNo", "Opposite">>
    /\ Slot(it, "remote", LastCall.option) = <<"Yes", "Empty">>

(* The channel that carries what who sends, and the one it receives on.   *)
ToPeer(who) == IF who = "it" THEN toWe ELSE toIt
ToMe(who) == IF who = "it" THEN toIt ELSE toWe

(* How many commands of the set cmds for option o the channel q holds.    *)
InFlight(q, cmds, o) ==
    Cardinality({i \in 1..Len(q) : q[i][1] \in cmds /\ q[i][2] = o})

(* The requests of who for option o that are not answered yet: its DO or  *)
(* DONT on the way to the peer, and the peer's WILL or WONT on the way    *)
(* back.                                                                  *)
Outstanding(who, o) ==
    InFlight(ToPeer(who), {DO, DONT}, o) + InFlight(ToMe(who), {WILL, WONT}, o)

(* At most one request outstanding, and one exactly while the remote slot *)
(* is WantNo or WantYes.                                                  *)
OneOutstanding ==
    \A who \in {"it", "we"}, o \in Options :
        /\ Outstanding(who, o) <= 1
        /\ Outstanding(who, o) = 1
             <=> Negotiator(who).remote[o] \in {"WantNo", "WantYes"}

(* What a step of the connected peers may do to the remote slot of who    *)
(* for option o: a call of enable or disable (apps grows) sends DO or     *)
(* DONT only from No or Yes and then leaves the slot in WantYes or WantNo,*)
(* sends nothing and keeps the state while the slot is WantNo or WantYes, *)
(* and never moves the slot into No or Yes; a slot leaves WantNo or       *)
(* WantYes for No or Yes only as who receives WILL or WONT for o.         *)
BoundaryStep(who, o) ==
    LET pre == Negotiator(who).remote[o]
        post == IF who = "it" THEN it'.remote[o] ELSE we'.remote[o]
        out == ToPeer(who)
        out2 == IF who = "it" THEN toWe' ELSE toIt'
        in2 == IF who = "it" THEN toIt' ELSE toWe'
        added == SubSeq(out2, Len(out) + 1, Len(out2))
        addedo == {i \in 1..Len(added) : added[i][2] = o}
    IN  IF apps' # apps
        THEN /\ addedo # {} =>
                    /\ pre \in {"No", "Yes"}
                    /\ \/ added = <<<<DO, o>>>> /\ post = "WantYes"
                       \/ added = <<<<DONT, o>>>> /\ post = "WantNo"
             /\ pre \in {"WantNo", "WantYes"} => (post = pre /\ addedo = {})
             /\ post \in {"No", "Yes"} => post = pre
        ELSE (pre \in {"WantNo", "WantYes"} /\ post \in {"No", "Yes"}) =>
                 /\ ToMe(who) # <<>>
                 /\ Head(ToMe(who)) \in {<<WILL, o>>, <<WONT, o>>}
                 /\ in2 = Tail(ToMe(who))

(* C25: a negotiator never has two of its own requests outstanding for    *)
(* an option, and enable, disable and recv respect the request/ack        *)
(* boundary in every step.                                                *)
C25_RequestAckBoundary ==
    /\ []OneOutstanding
    /\ [][\A who \in {"it", "we"}, o \in Options : BoundaryStep(who, o)]_vars

(* A disable in flight from it to we with an enable queued behind it, and *)
(* nothing else outstanding for option 200.                               *)
C25_Witness ==
    /\ Slot(it, "remote", 200) = <<"WantNo", "Opposite">>
    /\ toWe = <<<<DONT, 200>>>>
    /\ toIt = <<>>
    /\ we.local[200] = "Yes"
    /\ Outstanding("it", 200) = 1

(* C30: a call on option o changes no entry of another option; recv of    *)
(* WILL or WONT, enable and disable leave local and localq as they were;  *)
(* recv of DO or DONT leaves remote and remoteq as they were.             *)
C30_Frame ==
    calls # <<>> =>
        LET k == LastCall
        IN  /\ \A o \in Options \ {k.option} :
                   /\ k.post.local[o] = k.pre.local[o]
                   /\ k.post.localq[o] = k.pre.localq[o]
                   /\ k.post.remote[o] = k.pre.remote[o]
                   /\ k.post.remoteq[o] = k.pre.remoteq[o]
            /\ (k.op \in {"enable", "disable"} \/ k.command \in {WILL, WONT}) =>
                   /\ k.post.local = k.pre.local
                   /\ k.post.localq = k.pre.localq
            /\ (k.op = "recv" /\ k.command \in {DO, DONT}) =>
                   /\ k.post.remote = k.pre.remote
                   /\ k.post.remoteq = k.pre.remoteq
            /\ it = k.post

(* enable(24) on a negotiator whose slots for 200 are both waiting with   *)
(* a queued request: only remote[24] changes.                             *)
C30_Witness ==
    /\ calls # <<>>
    /\ LastCall.op = "enable"
    /\ LastCall.option = 24
    /\ it.remote[24] = "WantYes"
    /\ LastCall.pre.remote[24] = "No"
    /\ Slot(it, "remote", 200) = <<"WantYes", "Opposite">>
    /\ Slot(it, "local", 200) = <<"WantNo", "Opposite">>

(* C26: Opt::from_u8(b) succeeds exactly for b in 1..39, 70, 85, 86, 93   *)
(* and 255, with an option whose as_u8 is b; for any other octet it fails *)
(* with InvalidOption holding the octet.                                  *)
C26_FromU8 ==
    converted.called =>
        /\ converted.ok <=> octet \in (1..39) \cup {70, 85, 86, 93, 255}
        /\ converted.ok => as_u8(converted.opt) = octet
        /\ ~converted.ok => converted.invalid_src = octet

(* from_u8(0): BINARY has a constant but is not accepted.                 *)
C26_Witness ==
    /\ octet = 0
    /\ converted.called
    /\ ~converted.ok
    /\ converted.invalid_src = 0

(* C27 as stated: after a step that leaves Ground for another state, and  *)
(* after a step taken in IacEntry, the data cursor is 0 and ignoring is   *)
(* false.                                                                 *)
C27_ResetOutOfGround ==
    ( /\ Last > 0
      /\ \/ hist[Last].state = "Ground" /\ parser.state # "Ground"
         \/ hist[Last].state = "IacEntry" )
    => /\ parser.intermediate_idx = 0
       /\ ~parser.ignoring

(* C27 amended: a step taken in Data or in IacEntry resets the data       *)
(* cursor and ignoring before its transition action runs, so that after   *)
(* it ignoring is false and the cursor is 0, or 1 when the byte was       *)
(* collected; a step that leaves Ground resets neither.                   *)
C27_ResetOutOfData ==
    Last > 0 =>
        /\ hist[Last].state \in {"Data", "IacEntry"} =>
               /\ ~parser.ignoring
               /\ IF Collected(Last)
                  THEN /\ parser.intermediate_idx = 1
                       /\ parser.intermediates[1] = input[Last]
                  ELSE parser.intermediate_idx = 0
        /\ (hist[Last].state = "Ground" /\ parser.state # "Ground") =>
               /\ parser.intermediate_idx = hist[Last].intermediate_idx
               /\ parser.ignoring = hist[Last].ignoring

(* An overflowed run, IAC, and a byte received in IacEntry: the cursor    *)
(* and ignoring, still set when IacEntry was entered, are reset.          *)
C27_Witness ==
    /\ Last > 2
    /\ hist[Last - 1].state = "Ground"
    /\ hist[Last].state = "IacEntry"
    /\ hist[Last].ignoring
    /\ hist[Last].intermediate_idx = MAX_INTERMEDIATES
    /\ parser.intermediate_idx = 0
    /\ ~parser.ignoring

(* The data buffer as the entry action of the last step found it: what    *)
(* Ground had collected, or nothing if the step left Data or IacEntry.    *)
AtEntry ==
    IF hist[Last].state = "Ground"
    THEN Slice(parser.intermediates, hist[Last].intermediate_idx)
    ELSE <<>>

C29_LegacyIac ==
    /\ \A i \in 1..Len(performer) : performer[i].kind # "negotiate_dispatch"
    /\ ( /\ Last >= 1
         /\ hist[Last].state = "IacEntry"
         /\ input[Last] # SB )
       => /\ NewEvents = <<IacEv(input[Last])>>
          /\ parser.state = "Ground"
    /\ ( /\ Last >= 3
         /\ hist[Last - 2].state \in {"Ground", "Data"}
         /\ input[Last - 2] = IAC
         /\ input[Last - 1] \in 251..254 )
       => LET b == input[Last]
          IN  /\ hist[Last].state = "Ground"
              /\ SelectSeq(EventsSince(Last - 2), LAMBDA e : e.kind = "iac_dispatch")
                   = <<IacEv(input[Last - 1])>>
              /\ b = IAC => (parser.state = "IacEntry" /\ NewEvents = <<>>)
              /\ b \in {0, 10, 13} \cup (128..254) =>
                     /\ parser.state = "Data"
                     /\ ExecuteEv(b) \in {NewEvents[j] : j \in 1..Len(NewEvents)}
              /\ b \in (1..127) \ {10, 13} =>
                     /\ parser.state = "Ground"
                     /\ NewEvents = <<>>
                     /\ parser.intermediate_idx = hist[Last].intermediate_idx + 1
                     /\ parser.intermediates[parser.intermediate_idx] = b

(* IAC WILL TERMINAL-TYPE: iac_dispatch(251), and 24 collected as data.   *)
C29_Witness ==
    /\ input = <<255, 251, 24>>
    /\ performer = <<IacEv(251)>>
    /\ parser.state = "Ground"
    /\ intermediates(parser) = <<24>>


(* C31: two connected negotiators that began from Negotiator::new agree   *)
(* whenever nothing is in flight: for every option, one side holds the    *)
(* other's option to be on (remote = Yes) exactly when the other holds    *)
(* its own to be on (local = Yes).                                        *)
C31_Agreement ==
    Quiescent =>
        \A o \in Options :
            /\ it.remote[o] = "Yes" <=> we.local[o] = "Yes"
            /\ we.remote[o] = "Yes" <=> it.local[o] = "Yes"

(* Both directions used and at rest: it has turned option 200 of we on,   *)
(* we has turned option 24 of it on and off again.                        *)
C31_Witness ==
    /\ Quiescent
    /\ apps = 3
    /\ it.remote[200] = "Yes" /\ we.local[200] = "Yes"
    /\ we.remote[24] = "No" /\ it.local[24] = "No"
    /\ we.remote[200] = "No" /\ it.remote[24] = "No"


(* C32: every negotiate_dispatch(cmd, opt) the parser makes has cmd one   *)
(* of WILL, WONT, DO, DONT, and it is the command byte that followed the  *)
(* IAC two bytes before; each such callback is forwarded to recv, which   *)
(* never returns UnknownCommand.                                          *)
C32_ForwardedKnown ==
    /\ \A i \in 1..Len(performer) :
           performer[i].kind = "negotiate_dispatch" =>
               performer[i].cmd \in {WILL, WONT, DO, DONT}
    /\ \A i \in 1..Len(calls) :
           /\ calls[i].err \notin {"UnknownCommand", "InvalidCommand"}
           /\ calls[i].command \in {WILL, WONT, DO, DONT}
    /\ Len(calls) = Len(SelectSeq(performer,
                                  LAMBDA e : e.kind = "negotiate_dispatch"))
    /\ ( /\ Last >= 1
         /\ hist[Last].state = "NegEntry" )
       => /\ Last >= 3
          /\ hist[Last - 1].state = "IacEntry"
          /\ NewEvents = <<NegEv(input[Last - 1], input[Last])>>
          /\ calls[Len(calls)].command = input[Last - 1]
          /\ calls[Len(calls)].option = input[Last]

(* IAC WILL 24 refused, then IAC DO 200 with the latch rewritten: the     *)
(* second callback carries DO, not the WILL of the first.                 *)
C32_Witness ==
    /\ input = <<IAC, WILL, 24, IAC, DO, 200>>
    /\ performer = <<NegEv(WILL, 24), NegEv(DO, 200)>>
    /\ Len(calls) = 2
    /\ calls[1].sent = <<<<DONT, 24>>>>
    /\ calls[2].sent = <<<<WILL, 200>>>>
    /\ it.local[200] = "Yes"


(* The i-th byte was appended to the data buffer: collected with the      *)
(* cursor, cleared first when the byte was received in Data, below        *)
(* MAX_INTERMEDIATES.                                                     *)
Kept(i) ==
    /\ Collected(i)
    /\ (hist[i].state = "Ground" => hist[i].intermediate_idx < MAX_INTERMEDIATES)

(* The bytes appended to the data buffer among the first n, in order.     *)
RECURSIVE KeptBytes(_)
KeptBytes(n) ==
    IF n = 0 THEN <<>>
    ELSE KeptBytes(n - 1) \o (IF Kept(n) THEN <<input[n]>> ELSE <<>>)

(* The bytes of all data callbacks so far, in order.                      *)
Delivered == Payload(SelectSeq(performer, IsData))

(* C33: every data callback carries at least one byte, and the bytes of   *)
(* the data callbacks, taken together in order, are the bytes appended    *)
(* to the data buffer up to some point of the input, each once: no run    *)
(* is delivered twice; and the step after one that made a data callback   *)
(* makes none.                                                            *)
C33_OnceAndNonEmpty ==
    /\ \A i \in 1..Len(performer) :
           IsData(performer[i]) => performer[i].bytes # <<>>
    /\ Len(Delivered) <= Len(KeptBytes(Last))
    /\ Delivered = SubSeq(KeptBytes(Last), 1, Len(Delivered))
    /\ Last >= 2 =>
           LET before == SubSeq(performer, hist[Last - 1].n + 1, hist[Last].n)
           IN  SelectSeq(before, IsData) # <<>> =>
                   /\ SelectSeq(NewEvents, IsData) = <<>>
                   /\ hist[Last].state \in {"Data", "IacEntry"}

(* Two runs, each delivered once, and a third still in the buffer.        *)
C33_Witness_Events ==
    SelectSeq(performer, IsData) = <<DataEv(<<114, 114>>, FALSE), DataEv(<<115>>, FALSE)>>

C33_Witness ==
    /\ input = <<114, 114, 13, 115, 255>>
    /\ C33_Witness_Events
    /\ KeptBytes(Last) = <<114, 114, 115>>


(* C34: an advance call whose byte is collected makes no callback and     *)
(* leaves the parser in Ground; a data callback is made only by a byte    *)
(* that is not collected and leads to Data or IacEntry; and after an      *)
(* input that ends with collected bytes the buffer holds that run, which  *)
(* no data callback has delivered: the bytes appended so far are those    *)
(* delivered followed by those in the buffer.                             *)
C34_LazyDelivery ==
    Last > 0 =>
        /\ Collected(Last) =>
               /\ NewEvents = <<>>
               /\ parser.state = "Ground"
               /\ parser.intermediate_idx > 0
               /\ KeptBytes(Last) = Delivered \o intermediates(parser)
        /\ SelectSeq(NewEvents, IsData) # <<>> =>
               /\ ~Collected(Last)
               /\ parser.state \in {"Data", "IacEntry"}

(* CR executed, then 'r' 's' held back: only the execute has been seen.   *)
C34_Witness ==
    /\ input = <<13, 114, 115>>
    /\ performer = <<ExecuteEv(13)>>
    /\ parser.state = "Ground"
    /\ intermediates(parser) = <<114, 115>>


(* C35: in every state of the parser, ignoring is set only while the      *)
(* cursor of the data buffer is at MAX_INTERMEDIATES; and in NegEntry,    *)
(* SubEntry and SubIntermediate the cursor is 0 and ignoring is false.    *)
C35_DataBufferInvariant ==
    /\ parser.ignoring => parser.intermediate_idx = MAX_INTERMEDIATES
    /\ parser.state \in {"NegEntry", "SubEntry", "SubIntermediate"} =>
           /\ parser.intermediate_idx = 0
           /\ ~parser.ignoring

(* A run of MAX_INTERMEDIATES + 1 bytes delivered with ignoring set, then *)
(* IAC WILL: in NegEntry nothing of it is left.                           *)
C35_Witness ==
    /\ Last = LongRun + 4
    /\ parser.state = "NegEntry"
    /\ hist[Last - 1].ignoring
    /\ hist[Last - 1].intermediate_idx = MAX_INTERMEDIATES
    /\ \E i \in 1..Len(performer) : IsData(performer[i]) /\ performer[i].ignoring
    /\ parser.intermediate_idx = 0
    /\ ~parser.ignoring


(* The last two calls were first(o) and then second(o), the first made    *)
(* with the remote slot of o holding (s, Empty).                          *)
Toggled(o, s, first, second) ==
    /\ Len(calls) = 2
    /\ calls[1].op = first /\ calls[1].option = o
    /\ calls[2].op = second /\ calls[2].option = o
    /\ Slot(calls[1].pre, "remote", o) = <<s, "Empty">>

(* C36: with a request in flight, the opposite request and then the       *)
(* original one again leave the negotiator as it was: from (WantYes,      *)
(* Empty) disable; enable passes through (WantYes, Opposite), and from    *)
(* (WantNo, Empty) enable; disable passes through (WantNo, Opposite);     *)
(* neither call sends a command or returns an error.                      *)
C36_TogglesCancel ==
    \A o \in Options :
        /\ Toggled(o, "WantYes", "disable", "enable") =>
               /\ Slot(calls[1].post, "remote", o) = <<"WantYes", "Opposite">>
               /\ Slot(it, "remote", o) = <<"WantYes", "Empty">>
               /\ it = calls[1].pre
               /\ calls[1].sent = <<>> /\ calls[2].sent = <<>>
               /\ calls[1].err = "None" /\ calls[2].err = "None"
        /\ Toggled(o, "WantNo", "enable", "disable") =>
               /\ Slot(calls[1].post, "remote", o) = <<"WantNo", "Opposite">>
               /\ Slot(it, "remote", o) = <<"WantNo", "Empty">>
               /\ it = calls[1].pre
               /\ calls[1].sent = <<>> /\ calls[2].sent = <<>>
               /\ calls[1].err = "None" /\ calls[2].err = "None"

(* Option 200 being turned off (DONT in flight), then enable; disable.    *)
C36_Witness ==
    /\ Toggled(200, "WantNo", "enable", "disable")
    /\ Slot(it, "remote", 200) = <<"WantNo", "Empty">>
    /\ it.remote[24] = "WantYes"


(* C37: for every constant c of the option table, Opt::from_u8 called on  *)
(* c.as_u8() succeeds and returns c.                                      *)
C37_ConstantsRoundTrip ==
    \A c \in telnet_options :
        (converted.called /\ octet = as_u8(c)) =>
            /\ converted.ok
            /\ converted.opt = c

=============================================================================
